---- MODULE Spec2Model ----
(***************************************************************************)
(* PROT_CLUST: the protein-interaction clustering pipeline.                *)
(*                                                                         *)
(* The scripts build a networkx Graph from the rows of a CSV, run          *)
(* louvain_communities on it, attach the cluster ids to the nodes and      *)
(* compute the modularity of the result.  The graph container and the      *)
(* Louvain detector are networkx's; they are modelled here by what the     *)
(* calls in the scripts do (Graph.add_edge, louvain_partitions,            *)
(* _one_level, _gen_graph, modularity), with exact integer arithmetic:     *)
(* every comparison of two modularity values is made after multiplying     *)
(* both sides by the common positive denominator, and the products, which  *)
(* pass 2^31, are kept as pairs <<hi, lo>> = hi * 10^8 + lo.               *)
(*                                                                         *)
(* The Markov clustering scripts turn the graph into a matrix, run         *)
(* markov_clustering's run_mcl and get_clusters on it and map the indices  *)
(* of the clusters back to protein names; the floats of the matrix are     *)
(* kept in fixed point.                                                    *)
(***************************************************************************)
EXTENDS Integers, Sequences, FiniteSets, TLC

\* ------------------------------------------------------------------ bounds
NumProteins == 10         \* protein identifiers 1..NumProteins
IngestProteins == 3       \* identifiers met in the rows of the pipeline run
MaxScore == 2             \* combined_score of a row: 0..MaxScore
MaxRows == 3              \* rows of the CSV of the pipeline run
MaxSeed == 47             \* seeds 0..MaxSeed

Proteins == 1..NumProteins
Scores == 0..MaxScore

VARIABLES
    pc,          \* position of the script
    ingested,    \* the rows of the data frame read so far, in order
    G,           \* the networkx Graph object
    L,           \* the locals of louvain_partitions / _one_level
    communities, \* the list of sets louvain_communities returned
    mod_score,   \* modularity(G, communities) as num / den
    mcl,         \* the locals of the Markov clustering script
    btl,         \* the locals of btl_anal, the bottleneck ranking
    t4,          \* the locals of main of 04_target_bottleneck.py
    rep,         \* the locals of 03_reproducibility.py
    orch         \* the setup orchestrator main.py and the scripts it ran

vars == <<pc, ingested, G, L, communities, mod_score, mcl, btl, t4, rep, orch>>

\* ---------------------------------------------------------------- helpers
InSeq(x, s) == \E i \in 1..Len(s) : s[i] = x

Last(s) == s[Len(s)]

MaxOf(S) == CHOOSE x \in S : \A y \in S : y <= x

\* F applied to the value of x: the steps of a loop are taken one after the
\* other, each on the finished result of the one before.
Bind(x, F(_)) == CHOOSE r \in {F(v) : v \in {x}} : TRUE

RECURSIVE SumFrom(_, _)
SumFrom(s, i) == IF i > Len(s) THEN 0 ELSE s[i] + SumFrom(s, i + 1)

SumSeq(s) == Bind(s, LAMBDA v : SumFrom(v, 1))

\* ------------------------------------------------- numbers beyond 32 bits
\* <<hi, lo>> is hi * BigBase + lo with 0 <= lo < BigBase.
BigBase == 10000 * 10000

Big(x) == <<x \div BigBase, x % BigBase>>

BigZero == <<0, 0>>

BigAdd(x, y) ==
    Bind(<<x, y>>, LAMBDA a :
        <<a[1][1] + a[2][1] + ((a[1][2] + a[2][2]) \div BigBase),
          (a[1][2] + a[2][2]) % BigBase>>)

BigNeg(a) == IF a[2] = 0 THEN <<-a[1], 0>> ELSE <<-a[1] - 1, BigBase - a[2]>>

BigSub(a, b) == BigAdd(a, BigNeg(b))

BigLess(a, b) == a[1] < b[1] \/ (a[1] = b[1] /\ a[2] < b[2])

BigLeq(a, b) == a = b \/ BigLess(a, b)

\* x * y for 0 <= x, y < 2^31, by the digits of x and y in base 10^4.
BigMulNat(x, y) ==
    IF x < 46341 /\ y < 46341 THEN Big(x * y)
    ELSE LET x0 == x % 10000
             x1 == (x \div 10000) % 10000
             x2 == x \div BigBase
             y0 == y % 10000
             y1 == (y \div 10000) % 10000
             y2 == y \div BigBase
             c0 == x0 * y0
             c1 == x0 * y1 + x1 * y0
             c2 == x0 * y2 + x1 * y1 + x2 * y0
             c3 == x1 * y2 + x2 * y1
             c4 == x2 * y2
             lo == c0 + (c1 % 10000) * 10000
         IN  <<c2 + (c1 \div 10000) + c3 * 10000 + c4 * BigBase + (lo \div BigBase),
               lo % BigBase>>

Abs(x) == IF x < 0 THEN -x ELSE x

BigMul(x, y) ==
    Bind(<<x, y>>, LAMBDA a :
        Bind(BigMulNat(Abs(a[1]), Abs(a[2])), LAMBDA p :
            IF (a[1] < 0) # (a[2] < 0) THEN BigNeg(p) ELSE p))

RECURSIVE BigSumFrom(_, _)
BigSumFrom(s, i) ==
    IF i > Len(s) THEN BigZero ELSE BigAdd(s[i], BigSumFrom(s, i + 1))

BigSum(s) == Bind(s, LAMBDA v : BigSumFrom(v, 1))

\* ---------------------------------------------------------- networkx Graph
\* nodes: the node dict (insertion order); adj[u]: the neighbour dict of u
\* (insertion order); w: the weight attribute of the edge data dict, shared
\* by both orientations; cluster_id: the per-node attribute dict.
EmptyGraph ==
    [nodes |-> <<>>,
     adj |-> [u \in Proteins |-> <<>>],
     w |-> [e \in Proteins \X Proteins |-> 0],
     cluster_id |-> [u \in {} |-> 0]]

\* A key is entered in a dict at its first use and keeps its place.
AddKey(keys, x) == IF InSeq(x, keys) THEN keys ELSE Append(keys, x)

\* A mutant of add_edge: a repeated row adds its weight to the stored one.
add_edge_summing(g, u, v, wt) ==
    [g EXCEPT !.nodes = AddKey(AddKey(@, u), v),
              !.adj[u] = AddKey(@, v),
              !.adj[v] = AddKey(@, u),
              !.w[<<u, v>>] = g.w[<<u, v>>] + wt,
              !.w[<<v, u>>] = g.w[<<u, v>>] + wt]

\* Graph.add_edge(u, v, weight=wt): no validation of u, v or wt.
add_edge(g, u, v, wt) ==
    [g EXCEPT !.nodes = AddKey(AddKey(@, u), v),
              !.adj[u] = AddKey(@, v),
              !.adj[v] = AddKey(@, u),
              !.w[<<u, v>>] = wt,
              !.w[<<v, u>>] = wt]

\* G.edges(data="weight"): every edge once, by node order then neighbour
\* order, skipping the neighbours already visited as nodes.
RECURSIVE EdgesFrom(_, _)
EdgesFrom(g, i) ==
    IF i > Len(g.nodes) THEN <<>>
    ELSE LET u == g.nodes[i]
             seen == {g.nodes[j] : j \in 1..(i - 1)}
             nb == SelectSeq(g.adj[u], LAMBDA v : v \notin seen)
         IN  [k \in 1..Len(nb) |-> <<u, nb[k], g.w[<<u, nb[k]>>]>>]
             \o EdgesFrom(g, i + 1)

Edges(g) == EdgesFrom(g, 1)

\* G.degree(weight="weight"): the weights of the incident edges, a self-loop
\* counted twice.
Degree(g, u) ==
    SumSeq([k \in 1..Len(g.adj[u]) |-> g.w[<<u, g.adj[u][k]>>]])
    + (IF InSeq(u, g.adj[u]) THEN g.w[<<u, u>>] ELSE 0)

\* sum(dict(G.degree(weight)).values())
DegSum(g) == SumSeq([i \in 1..Len(g.nodes) |-> Degree(g, g.nodes[i])])

\* set(G.nodes)
NodeSet(g) == {g.nodes[i] : i \in 1..Len(g.nodes)}

\* G.size(weight="weight")
Size(g) == SumSeq([k \in 1..Len(Edges(g)) |-> Edges(g)[k][3]])

\* ------------------------------------------------------ networkx modularity
LOUVAIN_RESOLUTION == 1
ThresholdInv == 10000000       \* threshold = 0.0000001 = 1 / ThresholdInv

\* A mutant of L_c: an edge inside the community is counted from both ends.
InnerWeightTwice(g, comm) ==
    LET es == SelectSeq(Edges(g), LAMBDA e : e[1] \in comm /\ e[2] \in comm)
    IN  2 * SumSeq([k \in 1..Len(es) |-> es[k][3]])

\* L_c: the weight of the edges with both ends in the community.
InnerWeight(g, comm) ==
    LET es == SelectSeq(Edges(g), LAMBDA e : e[1] \in comm /\ e[2] \in comm)
    IN  SumSeq([k \in 1..Len(es) |-> es[k][3]])

CommDegree(g, comm) ==
    LET ns == SelectSeq(g.nodes, LAMBDA u : u \in comm)
    IN  SumSeq([k \in 1..Len(ns) |-> Degree(g, ns[k])])

\* modularity(G, communities, weight="weight") times deg_sum^2:
\*   L_c / m - resolution * d_c * d_c / deg_sum^2, with m = deg_sum / 2.
ModNum(g, comms) ==
    Bind(DegSum(g), LAMBDA deg_sum :
        BigSum([c \in 1..Len(comms) |->
                  BigSub(BigMul(2 * deg_sum, InnerWeight(g, comms[c])),
                         BigMul(LOUVAIN_RESOLUTION * CommDegree(g, comms[c]),
                                CommDegree(g, comms[c])))]))

\* deg_sum^2, the denominator of ModNum.
ModDen(g) == BigMul(DegSum(g), DegSum(g))

\* x / deg_sum^2 <= threshold, for the difference x of two ModNum.
WithinThreshold(x, g) ==
    BigLeq(x, Big(ModDen(g)[1] * (BigBase \div ThresholdInv)
                  + (ModDen(g)[2] \div ThresholdInv)))

\* --------------------------------------------------- networkx Louvain
\* The graph of one level: at level 0 a copy of G, later the graph of the
\* communities of the level before, community i of the filtered list being
\* node i; members[u] is the "nodes" attribute (default {u}).
EmptyLevelGraph ==
    [nodes |-> <<>>,
     adj |-> [u \in Proteins |-> <<>>],
     w |-> [e \in Proteins \X Proteins |-> 0],
     members |-> [u \in Proteins |-> {u}]]

RECURSIVE AddEdges(_, _, _)
AddEdges(h, es, i) ==
    IF i > Len(es) THEN h
    ELSE Bind(add_edge(h, es[i][1], es[i][2], es[i][3]),
              LAMBDA h1 : AddEdges(h1, es, i + 1))

\* graph = G.__class__(); graph.add_nodes_from(G);
\* graph.add_weighted_edges_from(G.edges(data=weight, default=1))
CopyGraph(g) == AddEdges([EmptyLevelGraph EXCEPT !.nodes = g.nodes], Edges(g), 1)

\* The position of the (non-empty) set of the list that holds u.
ComOf(comms, u) == CHOOSE i \in 1..Len(comms) : u \in comms[i]

RECURSIVE GenEdges(_, _, _, _)
GenEdges(h, es, i, inner) ==
    IF i > Len(es) THEN h
    ELSE LET c1 == ComOf(inner, es[i][1])
             c2 == ComOf(inner, es[i][2])
         IN  Bind(add_edge(h, c1, c2, es[i][3] + h.w[<<c1, c2>>]),
                  LAMBDA h1 : GenEdges(h1, es, i + 1, inner))

\* _gen_graph(G, partition): one node per community, carrying the union of
\* its members' "nodes"; the weights of the edges between two communities
\* (or inside one: a self-loop) are added up.
_gen_graph(g, inner) ==
    GenEdges([EmptyLevelGraph EXCEPT
                 !.nodes = [i \in 1..Len(inner) |-> i],
                 !.members = [i \in Proteins |->
                                IF i <= Len(inner)
                                THEN UNION {g.members[u] : u \in inner[i]}
                                ELSE {i}]],
             Edges(g), 1, inner)

\* seed.shuffle(rand_nodes).  The generator is a stream fixed by the seed;
\* here the stream is the seed's digits in the factorial number system, so
\* that the seeds 0..MaxSeed between them give every order of every level.
RECURSIVE Fact(_)
Fact(n) == IF n <= 1 THEN 1 ELSE n * Fact(n - 1)

RemoveAt(s, i) == [k \in 1..(Len(s) - 1) |-> IF k < i THEN s[k] ELSE s[k + 1]]

RECURSIVE NthPerm(_, _)
NthPerm(k, s) ==
    IF Len(s) = 0 THEN <<>>
    ELSE LET f == Fact(Len(s) - 1)
         IN  Bind(((k \div f) % Len(s)) + 1, LAMBDA i :
             Bind(RemoveAt(s, i), LAMBDA rest :
             Bind(k % f, LAMBDA k1 : <<s[i]>> \o NthPerm(k1, rest))))

Shuffle(rng, s) == NthPerm(rng % Fact(Len(s)), s)
NextRng(rng, s) == rng \div Fact(Len(s))

\* nbrs[u] = {v: wt for v in G[u] if v != u}
Nbrs(g, u) == SelectSeq(g.adj[u], LAMBDA v : v # u)

\* _neighbor_weights: the communities of the neighbours of u in the order
\* in which the dict first meets them ...
RECURSIVE FirstSeen(_, _)
FirstSeen(s, i) ==
    IF i > Len(s) THEN <<>>
    ELSE IF \E j \in 1..(i - 1) : s[j] = s[i] THEN FirstSeen(s, i + 1)
    ELSE <<s[i]>> \o FirstSeen(s, i + 1)

NeighborComs(g, node2com, u) ==
    FirstSeen([k \in 1..Len(Nbrs(g, u)) |-> node2com[Nbrs(g, u)[k]]], 1)

\* ... and the weight from u to each (0 for a community with no neighbour,
\* as the defaultdict gives).
WeightToCom(g, node2com, u, c) ==
    LET nb == SelectSeq(Nbrs(g, u), LAMBDA v : node2com[v] = c)
    IN  SumSeq([k \in 1..Len(nb) |-> g.w[<<u, nb[k]>>]])

\* gain * 2 m^2, for u taken out of its community (Stot already lowered):
\*   remove_cost + wt / m - resolution * Stot[nbr_com] * degree / (2 m^2)
\*   remove_cost = - weights2com[own] / m + resolution * Stot[own] * degree / (2 m^2)
GainNum(g, m, node2com, Stot, u, c) ==
    LET own == node2com[u]
        degree == Degree(g, u)
    IN  BigAdd(BigMul(2 * m, WeightToCom(g, node2com, u, c)
                             - WeightToCom(g, node2com, u, own)),
               BigMul(LOUVAIN_RESOLUTION * degree, Stot[own] - Stot[c]))

\* A mutant of the scan: a community is taken when its gain is not below the
\* best so far (>= for >).
RECURSIVE BestComLoose(_, _, _, _, _, _, _, _)
BestComLoose(g, m, node2com, Stot, u, coms, best_mod, best_com) ==
    IF coms = <<>> THEN best_com
    ELSE Bind(GainNum(g, m, node2com, Stot, u, Head(coms)),
              LAMBDA gain :
                IF BigLeq(best_mod, gain)
                THEN BestComLoose(g, m, node2com, Stot, u, Tail(coms), gain, Head(coms))
                ELSE BestComLoose(g, m, node2com, Stot, u, Tail(coms), best_mod, best_com))

\* for nbr_com, wt in weights2com.items(): if gain > best_mod: ...
RECURSIVE BestCom(_, _, _, _, _, _, _, _)
BestCom(g, m, node2com, Stot, u, coms, best_mod, best_com) ==
    IF coms = <<>> THEN best_com
    ELSE Bind(GainNum(g, m, node2com, Stot, u, Head(coms)),
              LAMBDA gain :
                IF BigLess(best_mod, gain)
                THEN BestCom(g, m, node2com, Stot, u, Tail(coms), gain, Head(coms))
                ELSE BestCom(g, m, node2com, Stot, u, Tail(coms), best_mod, best_com))

\* A mutant of the move: the node is added to its new community and not
\* taken out of the old one.
VisitNodeKeep(st, u) ==
    LET g == st.graph
        own == st.node2com[u]
        com == g.members[u]
    IN  Bind(Degree(g, u), LAMBDA degree :
        Bind([st.Stot EXCEPT ![own] = @ - degree], LAMBDA StotOut :
        Bind(NeighborComs(g, st.node2com, u), LAMBDA weights2com :
        Bind(BestCom(g, st.m, st.node2com, StotOut, u, weights2com, BigZero, own),
             LAMBDA best :
               IF best = own THEN [st EXCEPT !.Stot = [StotOut EXCEPT ![best] = @ + degree]]
               ELSE [st EXCEPT
                       !.Stot = [StotOut EXCEPT ![best] = @ + degree],
                       !.partition = [@ EXCEPT ![best] = @ \cup com],
                       !.inner_partition = [@ EXCEPT ![own] = @ \ {u}, ![best] = @ \cup {u}],
                       !.improvement = TRUE,
                       !.nb_moves = @ + 1,
                       !.node2com = [@ EXCEPT ![u] = best]]))))

\* The body of "for u in rand_nodes" for one node u.
VisitNode(st, u) ==
    LET g == st.graph
        own == st.node2com[u]
        com == g.members[u]
    IN  Bind(Degree(g, u), LAMBDA degree :
        Bind([st.Stot EXCEPT ![own] = @ - degree], LAMBDA StotOut :
        Bind(NeighborComs(g, st.node2com, u), LAMBDA weights2com :
        Bind(BestCom(g, st.m, st.node2com, StotOut, u, weights2com, BigZero, own),
             LAMBDA best :
               IF best = own THEN [st EXCEPT !.Stot = [StotOut EXCEPT ![best] = @ + degree]]
               ELSE [st EXCEPT
                       !.Stot = [StotOut EXCEPT ![best] = @ + degree],
                       !.partition = [@ EXCEPT ![own] = @ \ com, ![best] = @ \cup com],
                       !.inner_partition = [@ EXCEPT ![own] = @ \ {u}, ![best] = @ \cup {u}],
                       !.improvement = TRUE,
                       !.nb_moves = @ + 1,
                       !.node2com = [@ EXCEPT ![u] = best]]))))

RECURSIVE VisitAll(_, _, _)
VisitAll(st, order, i) ==
    IF i > Len(order) THEN st
    ELSE Bind(VisitNode(st, order[i]), LAMBDA st1 : VisitAll(st1, order, i + 1))

\* One pass of "while nb_moves > 0": nb_moves = 0; for u in rand_nodes: ...
OneSweep(st) == VisitAll([st EXCEPT !.nb_moves = 0], st.rand_nodes, 1)

\* The set-up of _one_level for the graph g: every node in the community of
\* its own position, the traversal order shuffled once for the level.
LevelInit(st, g) ==
    [st EXCEPT
        !.graph = g,
        !.node2com = [u \in Proteins |->
                        IF InSeq(u, g.nodes)
                        THEN CHOOSE i \in 1..Len(g.nodes) : g.nodes[i] = u
                        ELSE 0],
        !.inner_partition = [i \in 1..Len(g.nodes) |-> {g.nodes[i]}],
        !.Stot = [i \in 1..Len(g.nodes) |-> Degree(g, g.nodes[i])],
        !.rand_nodes = Shuffle(st.rng, g.nodes),
        !.rng = NextRng(st.rng, g.nodes),
        !.orders = Append(st.orders, Shuffle(st.rng, g.nodes)),
        !.nb_moves = 1,
        !.improvement = FALSE,
        !.level = @ + 1]

\* list(filter(len, partition))
FilterLen(s) == SelectSeq(s, LAMBDA c : c # {})

\* ------------------------------------------------------------- the script
RANDOM_SEED == 42

EmptyMatrix == [n |-> 0, a |-> [e \in {} |-> 0]]

NoMcl ==
    [nodes_list |-> <<>>, matrix |-> EmptyMatrix, last_mat |-> EmptyMatrix, i |-> 0,
     clusters_indices |-> <<>>, node2cluster |-> [u \in {} |-> 0]]

\* TOP_N_RANKING = 40 of 04_target_bottleneck.py
TOP_N_RANKING == 40

\* The locals of main of 04_target_bottleneck.py before the run.
NoT4 ==
    [TARGET_PROTEIN |-> 0, TOP_N_RANKING |-> 0, target_cluster_id |-> 0, target_subgraph |-> EmptyGraph,
     bc_scores |-> <<>>, deg_scores |-> <<>>, clust_scores |-> <<>>,
     bc_ranks |-> [u \in {} |-> 0], deg_ranks |-> [u \in {} |-> 0],
     clust_ranks |-> [u \in {} |-> 0],
     target_nodes |-> {}, printed |-> <<>>,
     combined_results |-> <<>>, written |-> {}]

\* The locals of 03_reproducibility.py before the run.
NoRep ==
    [nodes_list |-> <<>>, all_community_sets |-> <<>>, label_vectors |-> <<>>,
     KeyError |-> <<>>, compared |-> <<>>, ari_scores |-> <<>>]

\* main.py before it is started: whether features/data_import.py exists, the
\* scripts started so far, the return codes of those that ended, the
\* messages printed, and the exit status of main.py once it has ended.
NoOrch ==
    [exists |-> TRUE, started |-> <<>>, returncode |-> <<>>, printed |-> <<>>,
     exit |-> <<>>]

\* The locals of btl_anal before the call: the metric dicts are lists of
\* (node, value) items in the order of the dict.
NoBtl ==
    [target_protein |-> 0, large_cluster_limit |-> 0, PYVIS_AVAILABLE |-> FALSE,
     error |-> <<>>, cluster_id |-> 0, subG |-> EmptyGraph,
     deg |-> <<>>, clust |-> <<>>, bc |-> <<>>, k |-> <<>>, sample |-> <<>>, seed |-> <<>>,
     rank_bc |-> [u \in {} |-> 0], rank_deg |-> [u \in {} |-> 0],
     rank_clust |-> [u \in {} |-> 0],
     results |-> <<>>, df |-> <<>>, written |-> {}]

NoRun ==
    [graph |-> EmptyLevelGraph, m |-> 0, mod |-> BigZero,
     partition |-> <<>>, inner_partition |-> <<>>,
     node2com |-> [u \in Proteins |-> 0], Stot |-> <<>>,
     rand_nodes |-> <<>>, rng |-> 0, orders |-> <<>>,
     nb_moves |-> 0, improvement |-> FALSE, level |-> 0, yielded |-> <<>>]

Init ==
    /\ pc = "build"
    /\ ingested = <<>>
    /\ G = EmptyGraph
    /\ L = NoRun
    /\ communities = <<>>
    /\ mod_score = [num |-> BigZero, den |-> Big(1)]
    /\ mcl = NoMcl
    /\ btl = NoBtl
    /\ t4 = NoT4
    /\ rep = NoRep
    /\ orch = NoOrch

\* for p1, p2, score in zip(...): G.add_edge(p1, p2, weight=score)
Ingest ==
    /\ pc = "build"
    /\ Len(ingested) < MaxRows
    /\ \E p1 \in 1..IngestProteins, p2 \in 1..IngestProteins, score \in Scores :
         /\ ingested' = Append(ingested, <<p1, p2, score>>)
         /\ G' = add_edge(G, p1, p2, score)
    /\ UNCHANGED <<pc, L, communities, mod_score, mcl, btl, t4, rep, orch>>

\* louvain_communities(G, weight='weight', resolution, seed) up to the first
\* sweep: the singleton partition; returned as it is when G has no edge;
\* modularity() divides by deg_sum^2 and raises ZeroDivisionError at 0.
LouvainStart(seed) ==
    /\ pc = "build"
    /\ LET partition == [i \in 1..Len(G.nodes) |-> {G.nodes[i]}]
       IN  IF Edges(G) = <<>>
           THEN /\ communities' = partition
                /\ L' = [NoRun EXCEPT !.rng = seed, !.yielded = partition]
                /\ pc' = "clustered"
           ELSE IF DegSum(G) = 0
           THEN /\ pc' = "crashed"
                /\ L' = [NoRun EXCEPT !.rng = seed]
                /\ UNCHANGED communities
           ELSE \E graph \in {CopyGraph(G)} :
                  \E st \in {[NoRun EXCEPT !.rng = seed,
                                           !.mod = ModNum(G, partition),
                                           !.m = Size(graph),
                                           !.partition = partition]} :
                     /\ L' = LevelInit(st, graph)
                     /\ pc' = "sweep"
                     /\ UNCHANGED communities
    /\ UNCHANGED <<ingested, G, mod_score, mcl, btl, t4, rep, orch>>

\* _one_level: one pass of the while loop.
Sweep ==
    /\ pc = "sweep"
    /\ L' = OneSweep(L)
    /\ pc' = IF L'.nb_moves > 0 THEN "sweep" ELSE "level_end"
    /\ UNCHANGED <<ingested, G, communities, mod_score, mcl, btl, t4, rep, orch>>

\* The end of _one_level and the body of "while improvement" in
\* louvain_partitions: the partition is yielded, then the gain in modularity
\* is compared with the threshold, then the next level is set up.
\* louvain_communities returns the last partition yielded.
LevelEnd ==
    /\ pc = "level_end"
    /\ \E partition \in {FilterLen(L.partition)},
          inner \in {FilterLen(L.inner_partition)} :
         \E new_mod \in {ModNum(L.graph, inner)},
            st \in {[L EXCEPT !.partition = partition, !.inner_partition = inner]} :
           LET improvement == IF L.level = 1 THEN TRUE ELSE L.improvement
           IN  IF ~improvement
               THEN /\ communities' = L.yielded
                    /\ L' = st
                    /\ pc' = "clustered"
               ELSE IF WithinThreshold(BigSub(new_mod, L.mod), L.graph)
               THEN /\ communities' = partition
                    /\ L' = [st EXCEPT !.yielded = partition]
                    /\ pc' = "clustered"
               ELSE \E graph \in {_gen_graph(L.graph, inner)},
                       next \in {[st EXCEPT !.yielded = partition, !.mod = new_mod]} :
                      /\ L' = LevelInit(next, graph)
                      /\ pc' = "sweep"
                      /\ UNCHANGED communities
    /\ UNCHANGED <<ingested, G, mod_score, mcl, btl, t4, rep, orch>>

\* louvain_clust_object_out.py: cluster_mapping[node] = cluster_id for
\* cluster_id, node_set in enumerate(communities);
\* nx.set_node_attributes(G, cluster_mapping, "cluster_id")
cluster_mapping(comms) ==
    [u \in UNION {comms[i] : i \in 1..Len(comms)} |-> ComOf(comms, u) - 1]

Annotate ==
    /\ pc = "clustered"
    /\ G' = [G EXCEPT !.cluster_id = cluster_mapping(communities)]
    /\ pc' = "annotated"
    /\ UNCHANGED <<ingested, L, communities, mod_score, mcl, btl, t4, rep, orch>>

\* mod_score = modularity(G, communities, weight='weight')
Score ==
    /\ pc \in {"clustered", "annotated"}
    /\ IF DegSum(G) = 0
       THEN pc' = "crashed" /\ UNCHANGED mod_score
       ELSE /\ mod_score' = [num |-> ModNum(G, communities),
                             den |-> ModDen(G)]
            /\ pc' = "scored"
    /\ UNCHANGED <<ingested, G, L, communities, mcl, btl, t4, rep, orch>>

Next ==
    \/ Ingest
    \/ LouvainStart(RANDOM_SEED)
    \/ Sweep
    \/ LevelEnd
    \/ Annotate
    \/ Score

Spec == Init /\ [][Next]_vars

\* ------------------------------------------- the detector on its own
\* Every graph on the first LouvainProteins proteins with weights
\* 1..MaxWeight, its rows ingested in the order of the pairs, and every seed.
LouvainProteins == 4
MaxWeight == 2

RECURSIVE PairsFrom(_, _, _)
PairsFrom(i, j, n) ==
    IF i >= n THEN <<>>
    ELSE IF j > n THEN PairsFrom(i + 1, i + 2, n)
    ELSE <<<<i, j>>>> \o PairsFrom(i, j + 1, n)

AllPairs == PairsFrom(1, 2, LouvainProteins)

BuildGraph(rows) == AddEdges(EmptyGraph, rows, 1)

InitLouvain ==
    /\ pc = "build"
    /\ \E ws \in [1..Len(AllPairs) -> 0..MaxWeight] :
         ingested = SelectSeq([k \in 1..Len(AllPairs) |->
                                  <<AllPairs[k][1], AllPairs[k][2], ws[k]>>],
                              LAMBDA r : r[3] > 0)
    /\ G = BuildGraph(ingested)
    /\ L = NoRun
    /\ communities = <<>>
    /\ mod_score = [num |-> BigZero, den |-> Big(1)]
    /\ mcl = NoMcl
    /\ btl = NoBtl
    /\ t4 = NoT4
    /\ rep = NoRep
    /\ orch = NoOrch

NextLouvain ==
    \/ \E seed \in 0..MaxSeed : LouvainStart(seed)
    \/ Sweep
    \/ LevelEnd
    \/ Score

SpecLouvain == InitLouvain /\ [][NextLouvain]_vars

\* The scenario graph (P1,P2,0.9), (P2,P3,0.8), (P1,P3,0.85), (P3,P4,0.1), the
\* weights in hundredths (gains and modularity are ratios of weights).
ScenarioRows == <<<<1, 2, 90>>, <<2, 3, 80>>, <<1, 3, 85>>, <<3, 4, 10>>>>

InitScenario ==
    /\ pc = "build"
    /\ ingested = ScenarioRows
    /\ G = BuildGraph(ingested)
    /\ L = NoRun
    /\ communities = <<>>
    /\ mod_score = [num |-> BigZero, den |-> Big(1)]
    /\ mcl = NoMcl
    /\ btl = NoBtl
    /\ t4 = NoT4
    /\ rep = NoRep
    /\ orch = NoOrch

SpecScenario == InitScenario /\ [][NextLouvain]_vars

\* The chain P1 - P2 - ... of ChainLen proteins, every edge with a weight of
\* 1..MaxChainWeight, and the seeds 0..MaxSeed.
ChainLen == 6
MaxChainWeight == 2

InitChain ==
    /\ pc = "build"
    /\ \E ws \in [1..(ChainLen - 1) -> 1..MaxChainWeight] :
         ingested = [k \in 1..(ChainLen - 1) |-> <<k, k + 1, ws[k]>>]
    /\ G = BuildGraph(ingested)
    /\ L = NoRun
    /\ communities = <<>>
    /\ mod_score = [num |-> BigZero, den |-> Big(1)]
    /\ mcl = NoMcl
    /\ btl = NoBtl
    /\ t4 = NoT4
    /\ rep = NoRep
    /\ orch = NoOrch

SpecChain == InitChain /\ [][NextLouvain]_vars

\* Four pairs of proteins of weight PairWeight joined in a ring by edges of
\* weight 1, and a fifth pair, apart from them, of weight MaxHubWeight \div k
\* for k in 1..HubSteps.
PairWeight == 1999
MaxHubWeight == 19992000
HubSteps == 3

HubRows(h) ==
    <<<<1, 2, PairWeight>>, <<3, 4, PairWeight>>, <<5, 6, PairWeight>>,
      <<7, 8, PairWeight>>, <<2, 3, 1>>, <<6, 7, 1>>, <<1, 5, 1>>, <<4, 8, 1>>,
      <<9, 10, h>>>>

InitHub ==
    /\ pc = "build"
    /\ \E k \in 1..HubSteps : ingested = HubRows(MaxHubWeight \div k)
    /\ G = BuildGraph(ingested)
    /\ L = NoRun
    /\ communities = <<>>
    /\ mod_score = [num |-> BigZero, den |-> Big(1)]
    /\ mcl = NoMcl
    /\ btl = NoBtl
    /\ t4 = NoT4
    /\ rep = NoRep
    /\ orch = NoOrch

SpecHub == InitHub /\ [][NextLouvain]_vars

\* The loops of the detector go on as long as they can: the interpreter runs
\* the one thread of the script without stopping it.
SpecHubFair == SpecHub /\ WF_vars(NextLouvain)

\* ------------------------------------------------------ Markov clustering
\* 05_markov_clust_highperformance_object_out.py and
\* markov_clustering_highperform_object_out.py: the graph as a matrix,
\* mc.run_mcl, mc.get_clusters, the clusters by size, the indices back to
\* names.  The entries of the matrices are floats in [0, 1]; they are kept
\* here as whole multiples of 1 / McScale, every product and quotient
\* rounded down to one.  The weight w of an edge of G stands for
\* w / ScoreScale.
McScale == 10000
ScoreScale == 1000         \* df['combined_score'] / 1000.0
MCL_INFLATION == 2
MCL_EXPANSION == 2
PruneInv == 1000           \* MCL_PRUNING_THRESHOLD = 0.001 = 1 / PruneInv
loop_value == 1            \* run_mcl(..., loop_value=1, iterations=100, ...)
iterations == 100
RtolInv == 100000          \* sparse_allclose(a, b, rtol=1e-05, atol=1e-08)
AtolInv == 100000000

Cells(n) == (1..n) \X (1..n)

\* nx.to_scipy_sparse_array(G, nodelist=nodes_list)
to_scipy_sparse_array(g, nodes_list) ==
    [n |-> Len(nodes_list),
     a |-> [e \in Cells(Len(nodes_list)) |->
              IF InSeq(nodes_list[e[2]], g.adj[nodes_list[e[1]]])
              THEN (g.w[<<nodes_list[e[1]], nodes_list[e[2]]>>] * McScale)
                   \div ScoreScale
              ELSE 0]]

\* add_self_loops: every diagonal entry is set to loop_value.
add_self_loops(m, value) ==
    [m EXCEPT !.a = [e \in Cells(m.n) |->
                       IF e[1] = e[2] THEN value * McScale ELSE m.a[e]]]

ColSum(m, j) == SumSeq([i \in 1..m.n |-> m.a[<<i, j>>]])

\* sklearn normalize(matrix, norm="l1", axis=0): every column divided by its
\* sum; a column of sum 0 is left as it is.
normalize(m) ==
    Bind(m, LAMBDA x :
      Bind([j \in 1..x.n |-> ColSum(x, j)], LAMBDA sums :
        [x EXCEPT !.a = [e \in Cells(x.n) |->
                           IF sums[e[2]] = 0 THEN x.a[e]
                           ELSE (x.a[e] * McScale) \div sums[e[2]]]]))

\* The product of two matrices.
MatMul(x, y) ==
    [x EXCEPT !.a = [e \in Cells(x.n) |->
                       SumSeq([k \in 1..x.n |->
                                 (x.a[<<e[1], k>>] * y.a[<<k, e[2]>>]) \div McScale])]]

\* expand: matrix ** power
RECURSIVE expand(_, _)
expand(m, power) ==
    IF power = 1 THEN m
    ELSE Bind(expand(m, power - 1), LAMBDA x : MatMul(x, m))

RECURSIVE FxPow(_, _)
FxPow(x, power) ==
    IF power = 1 THEN x ELSE (FxPow(x, power - 1) * x) \div McScale

\* inflate: normalize(matrix.power(power))
inflate(m, power) ==
    normalize([m EXCEPT !.a = [e \in Cells(m.n) |-> FxPow(m.a[e], power)]])

\* iterate: one expansion and one inflation
iterate(m, expansion, inflation) ==
    Bind(expand(m, expansion), LAMBDA x : inflate(x, inflation))

\* matrix.argmax(axis=0): the first row holding the largest entry of column j
ArgMax(m, j) ==
    CHOOSE i \in 1..m.n :
        /\ \A k \in 1..m.n : m.a[<<k, j>>] <= m.a[<<i, j>>]
        /\ \A k \in 1..(i - 1) : m.a[<<k, j>>] < m.a[<<i, j>>]

\* prune: the entries under the threshold are dropped, the largest entry of
\* every column is kept whatever its size.
prune(m) ==
    Bind(m, LAMBDA x :
      Bind([j \in 1..x.n |-> ArgMax(x, j)], LAMBDA row_indices :
        [x EXCEPT !.a = [e \in Cells(x.n) |->
                           IF x.a[e] * PruneInv >= McScale \/ row_indices[e[2]] = e[1]
                           THEN x.a[e] ELSE 0]]))

\* converged: max(|a - b| - rtol * |b|) <= atol
converged(m, last_mat) ==
    \A e \in Cells(m.n) :
        Abs(m.a[e] - last_mat.a[e])
            <= (McScale + (AtolInv \div RtolInv) * Abs(last_mat.a[e])) \div AtolInv

\* tuple(matrix.getrow(attractor).nonzero()[1].tolist())
RowTuple(m, i) == SelectSeq([j \in 1..m.n |-> j], LAMBDA j : m.a[<<i, j>>] # 0)

\* The order of Python on tuples of integers.
RECURSIVE LexLess(_, _)
LexLess(s, t) ==
    IF s = <<>> THEN t # <<>>
    ELSE IF t = <<>> THEN FALSE
    ELSE IF Head(s) # Head(t) THEN Head(s) < Head(t)
    ELSE LexLess(Tail(s), Tail(t))

\* sorted(list(clusters))
RECURSIVE sorted(_)
sorted(C) ==
    IF C = {} THEN <<>>
    ELSE LET least == CHOOSE x \in C : \A y \in C \ {x} : LexLess(x, y)
         IN  <<least>> \o sorted(C \ {least})

\* get_clusters: the attractors are the indices of the non-zero entries of
\* the diagonal; the cluster of an attractor is the non-zero columns of its
\* row; the clusters are gathered in a set.
get_clusters(m) ==
    LET attractors == {i \in 1..m.n : m.a[<<i, i>>] # 0}
    IN  sorted({RowTuple(m, i) : i \in attractors})

\* A mutant of the sort: the clusters stay in the order of get_clusters.
SortByLenKeep(s) == s

\* list.sort(key=len, reverse=True): by length, the longest first, the
\* clusters of one length in the order they had.
RECURSIVE SortByLen(_)
SortByLen(s) ==
    IF s = <<>> THEN <<>>
    ELSE LET k == CHOOSE i \in 1..Len(s) :
                      /\ \A j \in 1..Len(s) : Len(s[j]) <= Len(s[i])
                      /\ \A j \in 1..(i - 1) : Len(s[j]) < Len(s[i])
         IN  <<s[k]>> \o SortByLen(RemoveAt(s, k))

\* networkx is_partition(G, communities)
is_partition(g, comms) ==
    LET nodes == {u \in UNION {comms[i] : i \in 1..Len(comms)} : InSeq(u, g.nodes)}
    IN  /\ Len(g.nodes) = Cardinality(nodes)
        /\ Cardinality(nodes) = SumSeq([i \in 1..Len(comms) |-> Cardinality(comms[i])])

\* nodes_list = list(G.nodes()); the matrix of G; run_mcl up to its loop:
\* the self-loops, then the columns normalized.
McStart ==
    /\ pc = "mcl_build"
    /\ IF G.nodes = <<>>
       THEN pc' = "crashed" /\ UNCHANGED mcl
       ELSE /\ mcl' = [mcl EXCEPT
                         !.nodes_list = G.nodes,
                         !.matrix = normalize(add_self_loops(
                                        to_scipy_sparse_array(G, G.nodes), loop_value)),
                         !.i = 0]
            /\ pc' = "mcl_loop"
    /\ UNCHANGED <<ingested, G, L, communities, mod_score, btl, t4, rep, orch>>

\* A mutant of the loop: the test of convergence is left out.
McIterateNoStop ==
    /\ pc = "mcl_loop"
    /\ \E matrix \in {prune(iterate(mcl.matrix, MCL_EXPANSION, MCL_INFLATION))} :
         /\ mcl' = [mcl EXCEPT !.matrix = matrix, !.last_mat = mcl.matrix, !.i = @ + 1]
         /\ pc' = IF mcl.i + 1 >= iterations THEN "mcl_extract" ELSE "mcl_loop"
    /\ UNCHANGED <<ingested, G, L, communities, mod_score, btl, t4, rep, orch>>

\* One pass of "for i in range(iterations)" of run_mcl: last_mat =
\* matrix.copy(); iterate; prune; break if converged(matrix, last_mat).
McIterate ==
    /\ pc = "mcl_loop"
    /\ \E matrix \in {prune(iterate(mcl.matrix, MCL_EXPANSION, MCL_INFLATION))} :
         /\ mcl' = [mcl EXCEPT !.matrix = matrix, !.last_mat = mcl.matrix, !.i = @ + 1]
         /\ pc' = IF converged(matrix, mcl.matrix) \/ mcl.i + 1 >= iterations
                  THEN "mcl_extract" ELSE "mcl_loop"
    /\ UNCHANGED <<ingested, G, L, communities, mod_score, btl, t4, rep, orch>>

\* clusters_indices = mc.get_clusters(result); clusters_indices.sort(...);
\* for cid, indices in enumerate(clusters_indices): members = {nodes_list[i]
\* for i in indices}; communities.append(members); node2cluster[member] = cid
McExtract ==
    /\ pc = "mcl_extract"
    /\ \E clusters_indices \in {SortByLen(get_clusters(mcl.matrix))} :
         \E comms \in {[cid \in 1..Len(clusters_indices) |->
                          {mcl.nodes_list[clusters_indices[cid][k]] :
                               k \in 1..Len(clusters_indices[cid])}]} :
           /\ communities' = comms
           /\ mcl' = [mcl EXCEPT
                        !.clusters_indices = clusters_indices,
                        !.node2cluster =
                            [u \in UNION {comms[i] : i \in 1..Len(comms)} |->
                               MaxOf({i \in 1..Len(comms) : u \in comms[i]}) - 1]]
    /\ pc' = "mcl_clustered"
    /\ UNCHANGED <<ingested, G, L, mod_score, btl, t4, rep, orch>>

\* try: mod_score = modularity(G, communities, weight='weight')
\* except: mod_score = 0.0
McScore ==
    /\ pc = "mcl_clustered"
    /\ mod_score' = IF is_partition(G, communities) /\ DegSum(G) # 0
                    THEN [num |-> ModNum(G, communities), den |-> ModDen(G)]
                    ELSE [num |-> BigZero, den |-> Big(1)]
    /\ pc' = "mcl_scored"
    /\ UNCHANGED <<ingested, G, L, communities, mcl, btl, t4, rep, orch>>

\* Every graph of at most MaxMclEdges edges on the first MclProteins
\* proteins, each edge with a combined_score of MclScores.
MclProteins == 5
MaxMclEdges == 4
MclScores == {ScoreScale \div 2, ScoreScale}

MclPairs == PairsFrom(1, 2, MclProteins)

InitMclWith(scores) ==
    /\ pc = "mcl_build"
    /\ \E ws \in [1..Len(MclPairs) -> {0} \cup scores] :
         /\ Cardinality({k \in 1..Len(MclPairs) : ws[k] # 0}) <= MaxMclEdges
         /\ ingested = SelectSeq([k \in 1..Len(MclPairs) |->
                                     <<MclPairs[k][1], MclPairs[k][2], ws[k]>>],
                                 LAMBDA r : r[3] > 0)
    /\ G = BuildGraph(ingested)
    /\ L = NoRun
    /\ communities = <<>>
    /\ mod_score = [num |-> BigZero, den |-> Big(1)]
    /\ mcl = NoMcl
    /\ btl = NoBtl
    /\ t4 = NoT4
    /\ rep = NoRep
    /\ orch = NoOrch

InitMcl == InitMclWith(MclScores)

NextMcl ==
    \/ McStart
    \/ McIterate
    \/ McExtract
    \/ McScore

SpecMcl == InitMcl /\ [][NextMcl]_vars

\* The graphs whose edges all have the largest combined_score; the script
\* is one thread that the interpreter runs to its end.
SpecMclFair == InitMclWith({ScoreScale}) /\ [][NextMcl]_vars /\ WF_vars(NextMcl)

\* ------------------------------------------------- the bottleneck ranking
\* bottleneck_analysis.btl_anal(target_protein, pickle_path, ...): the graph
\* and the communities are read from the pickle a clustering script wrote;
\* the community of the target is cut out of the graph, three metrics are
\* computed on it by networkx (modelled from the calls, betweenness and
\* clustering in fixed point), each metric is turned into ranks by get_ranks,
\* and the table of the sums of ranks is sorted by pandas.
BtlProteins == 4          \* protein identifiers in the pickled graph
MaxBtlRows == 3           \* rows the pickled graph was built from
MaxBtlWeight == 2         \* weight of a row: 1..MaxBtlWeight
BcScale == 720            \* betweenness is held as multiples of 1/BcScale
ClustScale == 100         \* clustering is held as multiples of 1/ClustScale

\* The value of a key in a dict held as a list of items.
Get(dict, u) == dict[CHOOSE k \in 1..Len(dict) : dict[k][1] = u][2]

\* G.subgraph(target_nodes).copy(): the nodes of the set in the order of G,
\* then the edges between them in the order of G.edges.
subgraph_copy(g, target_nodes) ==
    AddEdges([EmptyGraph EXCEPT
                  !.nodes = SelectSeq(g.nodes, LAMBDA u : u \in target_nodes)],
             SelectSeq(Edges(g), LAMBDA ed : ed[1] \in target_nodes
                                             /\ ed[2] \in target_nodes),
             1)

\* subG.degree() without weight: the number of incident edges, a self-loop
\* counted twice.
degree(g, u) == Len(g.adj[u]) + (IF InSeq(u, g.adj[u]) THEN 1 ELSE 0)

\* The dict f with every value computed and stored.
Filled(f) == CHOOSE t \in {f} : t = f

\* A length no path of g reaches.
Unreached(g) == DegSum(g) + 1

\* Shortest path lengths by weight (the distances of Dijkstra's algorithm in
\* betweenness_centrality(weight="weight")), through the nodes one by one.
RECURSIVE PathLengths(_, _, _)
PathLengths(g, d, k) ==
    IF k > Len(g.nodes) THEN d
    ELSE Bind(Filled([p \in DOMAIN d |->
                  LET via == d[<<p[1], g.nodes[k]>>] + d[<<g.nodes[k], p[2]>>]
                  IN  IF via < d[p] THEN via ELSE d[p]]),
              LAMBDA d1 : PathLengths(g, d1, k + 1))

Distances(g) ==
    Bind(Unreached(g), LAMBDA inf :
        PathLengths(g,
                    Filled([p \in NodeSet(g) \X NodeSet(g) |->
                               IF p[1] = p[2] THEN 0
                               ELSE IF InSeq(p[2], g.adj[p[1]]) THEN g.w[p]
                               ELSE inf]),
                    1))

\* sigma[t]: the number of shortest paths from s to t.
RECURSIVE Sigma(_, _, _, _)
Sigma(g, d, s, t) ==
    IF s = t THEN 1
    ELSE SumSeq([k \in 1..Len(g.adj[t]) |->
                    LET v == g.adj[t][k]
                    IN  IF v # t /\ d[<<s, v>>] + g.w[<<v, t>>] = d[<<s, t>>]
                        THEN Sigma(g, d, s, v)
                        ELSE 0])

\* The sum, over the sources s of the list and all targets t, of the share of
\* the shortest paths from s to t that pass through v (the dependencies that
\* betweenness_centrality accumulates source by source), times BcScale.
Dependencies(g, dist, sources, v) ==
    LET d == dist[1]
        share(s, t) ==
            IF s # t /\ s # v /\ t # v /\ d[<<s, t>>] < dist[2]
               /\ d[<<s, v>>] + d[<<v, t>>] = d[<<s, t>>]
            THEN (Sigma(g, d, s, v) * Sigma(g, d, v, t) * BcScale)
                     \div Sigma(g, d, s, t)
            ELSE 0
    IN  SumSeq([i \in 1..Len(sources) |->
            SumSeq([j \in 1..Len(g.nodes) |-> share(sources[i], g.nodes[j])])])

\* nx.betweenness_centrality(subG, k=k_sample, weight="weight",
\* normalized=True, seed=42): the dependencies of the k sampled sources only,
\* scaled by n / k on top of 1 / ((n - 1)(n - 2)); called with k >= 1 or
\* n <= 2 (with k = 0 and n > 2 the scaling divides by zero).
betweenness_centrality_k(g, sample) ==
    Bind(<<Distances(g), Unreached(g)>>, LAMBDA dist :
        LET n == Len(g.nodes)
        IN  [i \in 1..n |->
                <<g.nodes[i],
                  IF n > 2
                  THEN (Dependencies(g, dist, sample, g.nodes[i]) * n)
                           \div (Len(sample) * (n - 1) * (n - 2))
                  ELSE Dependencies(g, dist, sample, g.nodes[i])>>])

\* A mutant of betweenness_centrality: the first node is the only source.
betweenness_centrality_first(g) ==
    betweenness_centrality_k(g, SubSeq(g.nodes, 1, 1))

\* nx.betweenness_centrality(subG, weight="weight", normalized=True): for
\* every node the share of the shortest paths between the other nodes that
\* pass through it, divided by (n - 1)(n - 2) when n > 2; the dict is in the
\* order of the nodes.
betweenness_centrality(g) ==
    Bind(<<Distances(g), Unreached(g)>>, LAMBDA dist :
        LET n == Len(g.nodes)
        IN  [i \in 1..n |->
                <<g.nodes[i],
                  IF n > 2
                  THEN Dependencies(g, dist, g.nodes, g.nodes[i])
                           \div ((n - 1) * (n - 2))
                  ELSE Dependencies(g, dist, g.nodes, g.nodes[i])>>])

\* max(d.get(weight, 1) for u, v, d in G.edges(data=True)), 1 without edges
max_weight(g) ==
    IF Edges(g) = <<>> THEN 1
    ELSE MaxOf({Edges(g)[k][3] : k \in 1..Len(Edges(g))})

\* np.cbrt of x / ClustScale^3, in multiples of 1 / ClustScale
Cbrt(x) == CHOOSE r \in 0..ClustScale :
               r * r * r <= x /\ (r + 1) * (r + 1) * (r + 1) > x

\* A mutant of clustering: the triangles of a node are counted once.
clustering_once(g) ==
    LET mw == Bind(max_weight(g), LAMBDA x : x)
        tri(u) ==
            LET nb == Nbrs(g, u)
            IN  SumSeq([a \in 1..Len(nb) |->
                   SumSeq([b \in 1..Len(nb) |->
                      IF a < b /\ InSeq(nb[b], g.adj[nb[a]])
                      THEN Cbrt((g.w[<<u, nb[a]>>] * g.w[<<nb[a], nb[b]>>]
                                   * g.w[<<nb[b], u>>]
                                   * ClustScale * ClustScale * ClustScale)
                                \div (mw * mw * mw))
                      ELSE 0])])
        coef(u) ==
            LET t == tri(u)
                dg == Len(Nbrs(g, u))
            IN  IF t = 0 THEN 0 ELSE t \div (dg * (dg - 1))
    IN  [k \in 1..Len(g.nodes) |-> <<g.nodes[k], coef(g.nodes[k])>>]

\* nx.clustering(subG, weight="weight"): for a node with d neighbours and
\* the triangles T through it, 2 * sum over T of the cube root of the
\* product of the three weights (each divided by the largest weight of the
\* graph), divided by d (d - 1); 0 without a triangle.
clustering(g) ==
    LET mw == Bind(max_weight(g), LAMBDA x : x)
        tri(u) ==
            LET nb == Nbrs(g, u)
            IN  SumSeq([a \in 1..Len(nb) |->
                   SumSeq([b \in 1..Len(nb) |->
                      IF a < b /\ InSeq(nb[b], g.adj[nb[a]])
                      THEN Cbrt((g.w[<<u, nb[a]>>] * g.w[<<nb[a], nb[b]>>]
                                   * g.w[<<nb[b], u>>]
                                   * ClustScale * ClustScale * ClustScale)
                                \div (mw * mw * mw))
                      ELSE 0])])
        coef(u) ==
            LET t == 2 * tri(u)
                dg == Len(Nbrs(g, u))
            IN  IF t = 0 THEN 0 ELSE t \div (dg * (dg - 1))
    IN  [k \in 1..Len(g.nodes) |-> <<g.nodes[k], coef(g.nodes[k])>>]

\* sorted(metric_dict.items(), key=lambda x: x[1], reverse=reverse): a stable
\* sort, the items of one value stay in the order of the dict, also with
\* reverse=True.
RECURSIVE sorted_items(_, _)
sorted_items(items, reverse) ==
    IF items = <<>> THEN <<>>
    ELSE LET before(a, b) == IF reverse THEN a[2] > b[2] ELSE a[2] < b[2]
             k == CHOOSE i \in 1..Len(items) :
                      /\ \A j \in 1..Len(items) : ~before(items[j], items[i])
                      /\ \A j \in 1..(i - 1) : before(items[i], items[j])
         IN  <<items[k]>> \o sorted_items(RemoveAt(items, k), reverse)

\* A mutant of get_ranks: the parameter ascending is ignored.
get_ranks_descending(metric_dict, ascending) ==
    LET s == sorted_items(metric_dict, TRUE)
    IN  [u \in {s[r][1] : r \in 1..Len(s)} |->
            CHOOSE r \in 1..Len(s) : s[r][1] = u]

\* get_ranks(metric_dict, ascending): {node: rank + 1 for rank, (node, val)
\* in enumerate(sorted_items)}
get_ranks(metric_dict, ascending) ==
    LET s == sorted_items(metric_dict, ~ascending)
    IN  [u \in {s[r][1] : r \in 1..Len(s)} |->
            CHOOSE r \in 1..Len(s) : s[r][1] = u]

\* pd.DataFrame(results).sort_values("Total_Score").reset_index(drop=True):
\* ascending; numpy sorts a column of up to 16 rows by insertion, so the rows
\* of one score stay in the order of results.
RECURSIVE sort_values(_)
sort_values(rows) ==
    IF rows = <<>> THEN <<>>
    ELSE LET k == CHOOSE i \in 1..Len(rows) :
                      /\ \A j \in 1..Len(rows) :
                             rows[i].Total_Score <= rows[j].Total_Score
                      /\ \A j \in 1..(i - 1) :
                             rows[j].Total_Score > rows[i].Total_Score
         IN  <<rows[k]>> \o sort_values(RemoveAt(rows, k))

\* node2cluster of btl_anal: the last community of the list that holds n.
node2cluster(comms) ==
    [n \in UNION {comms[c] : c \in 1..Len(comms)} |->
        MaxOf({c \in 1..Len(comms) : n \in comms[c]}) - 1]

\* A mutant of BtlNotFound: a target in no community is looked up in the
\* first community.
BtlNotFoundFirst ==
    /\ pc = "btl_loaded"
    /\ btl.target_protein \notin DOMAIN node2cluster(communities)
    /\ btl' = [btl EXCEPT
                  !.subG = subgraph_copy(G, communities[1]),
                  !.deg = [i \in 1..Len(subgraph_copy(G, communities[1]).nodes) |->
                              <<subgraph_copy(G, communities[1]).nodes[i],
                                degree(subgraph_copy(G, communities[1]),
                                       subgraph_copy(G, communities[1]).nodes[i])>>],
                  !.clust = clustering(subgraph_copy(G, communities[1])),
                  !.sample = subgraph_copy(G, communities[1]).nodes,
                  !.bc = betweenness_centrality(subgraph_copy(G, communities[1]))]
    /\ pc' = "btl_metrics"
    /\ UNCHANGED <<ingested, G, L, communities, mod_score, mcl, t4, rep, orch>>

\* btl_anal, the target is in no community: the error is returned.
BtlNotFound ==
    /\ pc = "btl_loaded"
    /\ btl.target_protein \notin DOMAIN node2cluster(communities)
    /\ btl' = [btl EXCEPT !.error = <<"not found in the graph", btl.target_protein>>]
    /\ pc' = "btl_error"
    /\ UNCHANGED <<ingested, G, L, communities, mod_score, mcl, t4, rep, orch>>

\* btl_anal, locating the target and computing the metrics of its community:
\* above large_cluster_limit nodes the betweenness of a sample of 20% of the
\* nodes as sources, drawn by random.Random(42) (any sample of that size),
\* else the exact one.
BtlMetrics ==
    /\ pc = "btl_loaded"
    /\ btl.target_protein \in DOMAIN node2cluster(communities)
    /\ \E cluster_id \in {node2cluster(communities)[btl.target_protein]} :
       \E subG \in {subgraph_copy(G, communities[cluster_id + 1])} :
       \E k_sample \in {(Len(subG.nodes) * 20) \div 100} :
       \E measured \in {[btl EXCEPT
                            !.cluster_id = cluster_id,
                            !.subG = subG,
                            !.deg = [i \in 1..Len(subG.nodes) |->
                                        <<subG.nodes[i], degree(subG, subG.nodes[i])>>],
                            !.clust = clustering(subG)]} :
          IF Len(subG.nodes) > btl.large_cluster_limit
          THEN IF k_sample = 0 /\ Len(subG.nodes) > 2
               THEN /\ pc' = "crashed"
                    /\ btl' = [measured EXCEPT !.k = <<k_sample>>,
                                                !.seed = <<42>>]
               ELSE /\ \E S \in SUBSET NodeSet(subG) :
                          /\ Cardinality(S) = k_sample
                          /\ \E sample \in {SelectSeq(subG.nodes, LAMBDA u : u \in S)} :
                                btl' = [measured EXCEPT
                                           !.k = <<k_sample>>,
                                           !.sample = sample,
                                           !.seed = <<42>>,
                                           !.bc = betweenness_centrality_k(subG, sample)]
                    /\ pc' = "btl_metrics"
          ELSE /\ btl' = [measured EXCEPT
                              !.sample = subG.nodes,
                              !.bc = betweenness_centrality(subG)]
               /\ pc' = "btl_metrics"
    /\ UNCHANGED <<ingested, G, L, communities, mod_score, mcl, t4, rep, orch>>

\* The list of results of btl_anal: for every node, in the order of the
\* nodes of the subgraph, the sum of its three ranks and its metrics.
results_of(nodes, bc, deg, clust) ==
    LET rank_bc == get_ranks(bc, FALSE)
        rank_deg == get_ranks(deg, FALSE)
        rank_clust == get_ranks(clust, TRUE)
    IN  [i \in 1..Len(nodes) |->
            [Protein |-> nodes[i],
             Total_Score |-> rank_bc[nodes[i]] + rank_deg[nodes[i]]
                             + rank_clust[nodes[i]],
             BC |-> Get(bc, nodes[i]),
             Degree |-> Get(deg, nodes[i]),
             Clustering |-> Get(clust, nodes[i])]]

\* btl_anal, the three rankings and the list of results.
BtlRank ==
    /\ pc = "btl_metrics"
    /\ btl' = [btl EXCEPT
                  !.rank_bc = get_ranks(btl.bc, FALSE),
                  !.rank_deg = get_ranks(btl.deg, FALSE),
                  !.rank_clust = get_ranks(btl.clust, TRUE),
                  !.results = results_of(btl.subG.nodes, btl.bc, btl.deg, btl.clust)]
    /\ pc' = "btl_ranked"
    /\ UNCHANGED <<ingested, G, L, communities, mod_score, mcl, t4, rep, orch>>

\* btl_anal, the sorted table, saved as CSV.
BtlSort ==
    /\ pc = "btl_ranked"
    /\ btl' = [btl EXCEPT !.df = sort_values(btl.results),
                          !.written = @ \cup {"csv"}]
    /\ pc' = "btl_done"
    /\ UNCHANGED <<ingested, G, L, communities, mod_score, mcl, t4, rep, orch>>

\* btl_anal, the plot (PNG) and, when pyvis is installed, the HTML page.
BtlPlot ==
    /\ pc = "btl_done"
    /\ btl' = [btl EXCEPT !.written =
                   @ \cup {"png"} \cup (IF btl.PYVIS_AVAILABLE THEN {"html"} ELSE {})]
    /\ pc' = "btl_returned"
    /\ UNCHANGED <<ingested, G, L, communities, mod_score, mcl, t4, rep, orch>>

NextBtl == BtlNotFound \/ BtlMetrics \/ BtlRank \/ BtlSort \/ BtlPlot

\* btl_anal(..., large_cluster_limit=500)
large_cluster_limit == 500

\* The pickle: a graph built from rows, and a list of communities that
\* holds all its nodes, or all but the node left, which is alone in a
\* second community; the arguments and the configuration of the two
\* scripts that read it.
InitPickle(rows, left, target, limit, pyvis, top_n) ==
    /\ pc = "btl_loaded"
    /\ ingested = rows
    /\ G = BuildGraph(rows)
    /\ NodeSet(G) \ {left} # {}
    /\ communities = IF left \in NodeSet(G)
                     THEN <<NodeSet(G) \ {left}, {left}>>
                     ELSE <<NodeSet(G)>>
    /\ L = NoRun
    /\ mod_score = [num |-> BigZero, den |-> Big(1)]
    /\ mcl = NoMcl
    /\ btl = [NoBtl EXCEPT !.target_protein = target,
                           !.large_cluster_limit = limit,
                           !.PYVIS_AVAILABLE = pyvis]
    /\ t4 = [NoT4 EXCEPT !.TARGET_PROTEIN = target, !.TOP_N_RANKING = top_n]
    /\ rep = NoRep
    /\ orch = NoOrch

\* The first node of the graph that is in the first community.
FirstMember(rows, left) == SelectSeq(BuildGraph(rows).nodes, LAMBDA u : u # left)[1]

\* The target is the first node of the first community.
InitBtlOn(rows, left) ==
    InitPickle(rows, left, FirstMember(rows, left), large_cluster_limit, TRUE, TOP_N_RANKING)

BtlRowSet ==
    {<<a, b, wt>> : a \in 1..BtlProteins, b \in 1..BtlProteins, wt \in 1..MaxBtlWeight}
        \ {<<a, a, wt>> : a \in 1..BtlProteins, wt \in 1..MaxBtlWeight}

\* Graphs of up to MaxBtlRows rows in any order and orientation.
InitBtl ==
    \E n \in 1..MaxBtlRows : \E rows \in [1..n -> BtlRowSet] :
    \E left \in {0, BtlProteins} :
        \/ InitBtlOn(rows, left)
        \/ InitPickle(rows, left, BtlProteins + 1, large_cluster_limit, FALSE,
                      TOP_N_RANKING)

SpecBtl == InitBtl /\ [][NextBtl]_vars

BtlPairs == PairsFrom(1, 2, BtlProteins)

\* Graphs of any number of edges among BtlProteins proteins, the rows in the
\* order of the pairs.
InitBtlDense ==
    \E ws \in [1..Len(BtlPairs) -> 0..MaxBtlWeight] :
    \E left \in {0, BtlProteins} :
    \E rows \in {SelectSeq([k \in 1..Len(BtlPairs) |->
                               <<BtlPairs[k][1], BtlPairs[k][2], ws[k]>>],
                           LAMBDA r : r[3] > 0)} :
        \/ InitBtlOn(rows, left)
        \/ /\ left = 0
           /\ InitPickle(rows, left, BtlProteins + 1, large_cluster_limit, FALSE,
                         TOP_N_RANKING)

SpecBtlDense == InitBtlDense /\ [][NextBtl]_vars

\* ------------------------------------- the script 04_target_bottleneck.py
\* main of 04_target_bottleneck.py reads the same pickle and ranks the
\* community of TARGET_PROTEIN on its own: the metrics are those of btl_anal
\* (the betweenness always exact), each metric's sorted list is cut to its
\* first TOP_N_RANKING items, and a node outside a list gets the rank
\* TOP_N_RANKING + 1 for that metric.
MaxTopN == 3              \* TOP_N_RANKING of a run: 1..MaxTopN

\* A mutant of the cut: the list keeps one item less.
top_items_short(scores, reverse, top_n) ==
    LET s == sorted_items(scores, reverse)
    IN  SubSeq(s, 1, IF top_n - 1 < Len(s) THEN top_n - 1 ELSE Len(s))

\* sorted(scores.items(), key=lambda x: x[1], reverse=reverse)[:TOP_N_RANKING]
top_items(scores, reverse, top_n) ==
    LET s == sorted_items(scores, reverse)
    IN  SubSeq(s, 1, IF top_n < Len(s) THEN top_n ELSE Len(s))

\* {p: i+1 for i, (p, _) in enumerate(sorted_x)}
ranks_of(items) ==
    [u \in {items[r][1] : r \in 1..Len(items)} |->
        CHOOSE r \in 1..Len(items) : items[r][1] = u]

\* d.get(p, default)
dict_get(d, p, default) == IF p \in DOMAIN d THEN d[p] ELSE default

\* The orders in which a set can be iterated.
Orders(S) ==
    {o \in [1..Cardinality(S) -> S] :
        \A i, j \in 1..Cardinality(S) : i # j => o[i] # o[j]}

\* main, the target is in no community: a message is printed and main returns.
T4NotFound ==
    /\ pc = "btl_loaded"
    /\ t4.TARGET_PROTEIN \notin DOMAIN node2cluster(communities)
    /\ t4' = [t4 EXCEPT !.printed = <<"[ERROR] not found in the network", t4.TARGET_PROTEIN>>]
    /\ pc' = "t4_error"
    /\ UNCHANGED <<ingested, G, L, communities, mod_score, mcl, btl, rep, orch>>

\* main, the nodes mapped to the cluster of the target, written to
\* target_cluster_nodes.txt, and the metrics of their subgraph.
T4Metrics ==
    /\ pc = "btl_loaded"
    /\ t4.TARGET_PROTEIN \in DOMAIN node2cluster(communities)
    /\ \E node2cluster_id \in {node2cluster(communities)} :
       \E target_cluster_id \in {node2cluster_id[t4.TARGET_PROTEIN]} :
       \E target_nodes \in {{n \in DOMAIN node2cluster_id :
                                node2cluster_id[n] = target_cluster_id}} :
       \E target_subgraph \in {subgraph_copy(G, target_nodes)} :
          t4' = [t4 EXCEPT
                    !.target_cluster_id = target_cluster_id,
                    !.target_nodes = target_nodes,
                    !.written = @ \cup {"target_cluster_nodes.txt"},
                    !.target_subgraph = target_subgraph,
                    !.bc_scores = betweenness_centrality(target_subgraph),
                    !.deg_scores =
                        [i \in 1..Len(target_subgraph.nodes) |->
                            <<target_subgraph.nodes[i],
                              degree(target_subgraph, target_subgraph.nodes[i])>>],
                    !.clust_scores = clustering(target_subgraph)]
    /\ pc' = "t4_metrics"
    /\ UNCHANGED <<ingested, G, L, communities, mod_score, mcl, btl, rep, orch>>

\* main, the three cut rankings and the sorted list of the combined ranks;
\* unique_proteins is a set of names, iterated in any order, and
\* combined_results.sort(key=Total_Score) is a stable sort, as sort_values.
T4Rank ==
    /\ pc = "t4_metrics"
    /\ \E bc_ranks \in {ranks_of(top_items(t4.bc_scores, TRUE, t4.TOP_N_RANKING))} :
       \E deg_ranks \in {ranks_of(top_items(t4.deg_scores, TRUE, t4.TOP_N_RANKING))} :
       \E clust_ranks \in {ranks_of(top_items(t4.clust_scores, FALSE, t4.TOP_N_RANKING))} :
       \E unique_proteins \in Orders(DOMAIN bc_ranks \cup DOMAIN deg_ranks
                                        \cup DOMAIN clust_ranks) :
          t4' = [t4 EXCEPT
                    !.bc_ranks = bc_ranks,
                    !.deg_ranks = deg_ranks,
                    !.clust_ranks = clust_ranks,
                    !.combined_results =
                        sort_values([i \in 1..Len(unique_proteins) |->
                            LET p == unique_proteins[i]
                                r_bc == dict_get(bc_ranks, p, t4.TOP_N_RANKING + 1)
                                r_deg == dict_get(deg_ranks, p, t4.TOP_N_RANKING + 1)
                                r_clust == dict_get(clust_ranks, p, t4.TOP_N_RANKING + 1)
                            IN  [Protein |-> p,
                                 BC_Rank |-> r_bc,
                                 Deg_Rank |-> r_deg,
                                 Clust_Rank |-> r_clust,
                                 Total_Score |-> r_bc + r_deg + r_clust]])]
    /\ pc' = "t4_ranked"
    /\ UNCHANGED <<ingested, G, L, communities, mod_score, mcl, btl, rep, orch>>

\* main, the plot of the cluster.
T4Plot ==
    /\ pc = "t4_ranked"
    /\ t4' = [t4 EXCEPT !.written = @ \cup {"png"}]
    /\ pc' = "t4_done"
    /\ UNCHANGED <<ingested, G, L, communities, mod_score, mcl, btl, rep, orch>>

NextT4 == T4NotFound \/ T4Metrics \/ T4Rank \/ T4Plot

\* Graphs of any number of edges among BtlProteins proteins, a target in the
\* first community or in none, and a TOP_N_RANKING of 1..MaxTopN.
InitT4 ==
    \E ws \in [1..Len(BtlPairs) -> 0..MaxBtlWeight] :
    \E left \in {0, BtlProteins} :
    \E top_n \in 1..MaxTopN :
    \E rows \in {SelectSeq([k \in 1..Len(BtlPairs) |->
                               <<BtlPairs[k][1], BtlPairs[k][2], ws[k]>>],
                           LAMBDA r : r[3] > 0)} :
        \/ InitPickle(rows, left, FirstMember(rows, left), large_cluster_limit,
                      TRUE, top_n)
        \/ /\ top_n = 1
           /\ InitPickle(rows, left, BtlProteins + 1, large_cluster_limit,
                         TRUE, top_n)

SpecT4 == InitT4 /\ [][NextT4]_vars

\* ------------------------------------------------ paths, rings and cliques
\* The two rankers on graphs of a known shape with unit weights, all nodes in
\* one community, with the default large_cluster_limit and with small ones
\* that the communities here exceed.
MaxShapeNodes == 5        \* nodes of a shape: 2..MaxShapeNodes
SmallLimit == 4           \* small large_cluster_limit: SmallLimit - 1, SmallLimit

\* The rows of the path 1 - 2 - ... - n.
path_rows(n) == [i \in 1..(n - 1) |-> <<i, i + 1, 1>>]

\* The rows of the ring 1 - 2 - ... - n - 1.
ring_rows(n) == [i \in 1..n |-> <<i, (i % n) + 1, 1>>]

\* The rows of the graph with an edge between every two of n nodes.
complete_rows(n) ==
    [k \in 1..Len(PairsFrom(1, 2, n)) |->
        <<PairsFrom(1, 2, n)[k][1], PairsFrom(1, 2, n)[k][2], 1>>]

InitShapes ==
    \E n \in 2..MaxShapeNodes :
    \E rows \in {path_rows(n), ring_rows(n), complete_rows(n)} :
    \E limit \in {SmallLimit - 1, SmallLimit, large_cluster_limit} :
    \E target \in 1..(n + 1) :
        InitPickle(rows, 0, target, limit, TRUE, TOP_N_RANKING)

SpecShapes == InitShapes /\ [][NextBtl \/ NextT4]_vars

\* ------------------------------------------------- 03_reproducibility.py
\* main of 03_reproducibility.py takes the nodes of the graph as the fixed
\* order, turns the community list of every run into a vector of labels with
\* communities_to_labels and compares every two vectors.  Here the order and
\* the lists are any, also lists that are no partition of the nodes, so that
\* communities_to_labels is applied to all it can be given.
LabelNodes == 3           \* nodes of the order and of the communities
MaxComms == 2             \* communities of a list
MaxRuns == 3              \* runs compared

\* A mutant of communities_to_labels: a node without label gets the label -1.
communities_to_labels_default(communities_list, nodes) ==
    LET node2label ==
            [n \in UNION {communities_list[c] : c \in 1..Len(communities_list)} |->
                MaxOf({c \in 1..Len(communities_list) : n \in communities_list[c]}) - 1]
    IN  [KeyError |-> <<>>,
         labels |-> [i \in 1..Len(nodes) |->
                        IF nodes[i] \in DOMAIN node2label
                        THEN node2label[nodes[i]]
                        ELSE -1]]

\* communities_to_labels(communities, nodes): node2label[n] is the index of
\* the last community of the list that holds n; the result is
\* [node2label[n] for n in nodes], or the KeyError of the first node of
\* nodes without label.
communities_to_labels(communities_list, nodes) ==
    LET node2label ==
            [n \in UNION {communities_list[c] : c \in 1..Len(communities_list)} |->
                MaxOf({c \in 1..Len(communities_list) : n \in communities_list[c]}) - 1]
    IN  IF \E i \in 1..Len(nodes) : nodes[i] \notin DOMAIN node2label
        THEN [KeyError |-> <<nodes[CHOOSE i \in 1..Len(nodes) :
                                /\ nodes[i] \notin DOMAIN node2label
                                /\ \A j \in 1..(i - 1) :
                                       nodes[j] \in DOMAIN node2label]>>,
              labels |-> <<>>]
        ELSE [KeyError |-> <<>>,
              labels |-> [i \in 1..Len(nodes) |-> node2label[nodes[i]]]]

\* sklearn's adjusted_rand_score(vec1, vec2) as the fraction <<num, den>>.
\* pair_confusion_matrix counts the ordered pairs of distinct places with
\* different labels in both vectors (tn), the same label in the second only
\* (fp), in the first only (fn), in both (tp); the score is 1.0 when
\* fn = fp = 0, else
\* 2 (tp tn - fn fp) / ((tp + fn)(fn + tn) + (tp + fp)(fp + tn)).
adjusted_rand_score(vec1, vec2) ==
    LET pairs == {p \in (1..Len(vec1)) \X (1..Len(vec1)) : p[1] # p[2]}
        same1(p) == vec1[p[1]] = vec1[p[2]]
        same2(p) == vec2[p[1]] = vec2[p[2]]
        tn == Cardinality({p \in pairs : ~same1(p) /\ ~same2(p)})
        fp == Cardinality({p \in pairs : ~same1(p) /\ same2(p)})
        fn == Cardinality({p \in pairs : same1(p) /\ ~same2(p)})
        tp == Cardinality({p \in pairs : same1(p) /\ same2(p)})
    IN  IF fn = 0 /\ fp = 0 THEN <<1, 1>>
        ELSE <<2 * (tp * tn - fn * fp),
               (tp + fn) * (fn + tn) + (tp + fp) * (fp + tn)>>

\* main, the label vectors of all runs; a KeyError ends the script.
RepLabels ==
    /\ pc = "rep_clustered"
    /\ \E converted \in {[r \in 1..Len(rep.all_community_sets) |->
                             communities_to_labels(rep.all_community_sets[r],
                                                   rep.nodes_list)]} :
          IF \E r \in 1..Len(converted) : converted[r].KeyError # <<>>
          THEN /\ pc' = "crashed"
               /\ rep' = [rep EXCEPT !.KeyError =
                             converted[CHOOSE r \in 1..Len(converted) :
                                 /\ converted[r].KeyError # <<>>
                                 /\ \A q \in 1..(r - 1) :
                                        converted[q].KeyError = <<>>].KeyError]
          ELSE /\ pc' = "rep_labelled"
               /\ rep' = [rep EXCEPT !.label_vectors =
                             [r \in 1..Len(converted) |-> converted[r].labels]]
    /\ UNCHANGED <<ingested, G, L, communities, mod_score, mcl, btl, t4, orch>>

\* main, the comparison of every two label vectors, the pairs i < j of
\* itertools.combinations in lexicographic order: the adjusted Rand index of
\* each pair (the normalized mutual information of the pair is a quotient of
\* sums of logarithms in doubles and is not held).
RepCompare ==
    /\ pc = "rep_labelled"
    /\ \E pairs \in {PairsFrom(1, 2, Len(rep.label_vectors))} :
          rep' = [rep EXCEPT
                     !.compared = pairs,
                     !.ari_scores =
                         [k \in 1..Len(pairs) |->
                             adjusted_rand_score(rep.label_vectors[pairs[k][1]],
                                                 rep.label_vectors[pairs[k][2]])]]
    /\ pc' = "rep_compared"
    /\ UNCHANGED <<ingested, G, L, communities, mod_score, mcl, btl, t4, orch>>

NextRep == RepLabels \/ RepCompare

\* The lists of up to MaxComms non-empty sets of nodes.
CommunityLists ==
    UNION {[1..n -> (SUBSET (1..LabelNodes)) \ {{}}] : n \in 1..MaxComms}

\* The runs have ended: any order of any nodes, and MaxRuns or fewer lists of
\* communities, all the same or the last another one.
InitRep ==
    /\ pc = "rep_clustered"
    /\ ingested = <<>>
    /\ G = EmptyGraph
    /\ communities = <<>>
    /\ L = NoRun
    /\ mod_score = [num |-> BigZero, den |-> Big(1)]
    /\ mcl = NoMcl
    /\ btl = NoBtl
    /\ t4 = NoT4
    /\ orch = NoOrch
    /\ \E S \in (SUBSET (1..LabelNodes)) \ {{}} : \E nodes_list \in Orders(S) :
       \E first \in CommunityLists :
       \E other \in {first, <<1..LabelNodes>>, <<{1}, (1..LabelNodes) \ {1}>>} :
       \E n \in 1..MaxRuns :
          rep = [NoRep EXCEPT
                    !.nodes_list = nodes_list,
                    !.all_community_sets =
                        [r \in 1..n |-> IF r = n THEN other ELSE first]]

SpecRep == InitRep /\ [][NextRep]_vars

\* ----------------------------------------------------------------- main.py
\* main.py checks that features/data_import.py exists, then runs
\* pre_requisites.py and features/data_import.py one after the other with
\* run_script, which waits for the child and leaves main.py with the child's
\* return code when it is not 0.
MaxExit == 40             \* exit code of a script: 0..MaxExit
MaxSignal == 15           \* signal that ends a script: 1..MaxSignal

\* if not DATA_IMPORT_PATH.exists(): ... sys.exit(1)
OrchCheck ==
    /\ pc = "orch_start"
    /\ IF orch.exists
       THEN /\ pc' = "orch_pre"
            /\ UNCHANGED orch
       ELSE /\ pc' = "orch_exited"
            /\ orch' = [orch EXCEPT !.printed = Append(@, "FATAL ERROR"),
                                    !.exit = <<1>>]
    /\ UNCHANGED <<ingested, G, L, communities, mod_score, mcl, btl, t4, rep>>

\* run_script(script_name) up to the start of the child.
run_script(script_name) ==
    /\ orch' = [orch EXCEPT !.started = Append(@, script_name),
                            !.printed = Append(@, "Starting")]
    /\ pc' = "orch_running"

\* run_script("pre_requisites.py")
OrchPre ==
    /\ pc = "orch_pre"
    /\ run_script("pre_requisites.py")
    /\ UNCHANGED <<ingested, G, L, communities, mod_score, mcl, btl, t4, rep>>

\* run_script(str(DATA_IMPORT_PATH))
OrchImport ==
    /\ pc = "orch_import"
    /\ run_script("features/data_import.py")
    /\ UNCHANGED <<ingested, G, L, communities, mod_score, mcl, btl, t4, rep>>

\* A mutant of ScriptEnds: a failed script is reported and main.py goes on.
ScriptEndsGoesOn ==
    /\ pc = "orch_running"
    /\ \E returncode \in (0 - MaxSignal)..MaxExit :
          orch' = [orch EXCEPT !.returncode = Append(@, returncode),
                               !.printed = Append(@, IF returncode = 0
                                                     THEN "finished successfully"
                                                     ELSE "ERROR")]
    /\ pc' = IF Len(orch.started) = 1 THEN "orch_import" ELSE "orch_tail"
    /\ UNCHANGED <<ingested, G, L, communities, mod_score, mcl, btl, t4, rep>>

\* subprocess.run(command, check=True) returns, or raises CalledProcessError
\* for a return code other than 0 and run_script calls
\* sys.exit(e.returncode).  The return code is the exit code of the child or
\* minus the number of the signal that ended it; the exit status of main.py
\* is the low byte of the code given to sys.exit.
ScriptEnds ==
    /\ pc = "orch_running"
    /\ \E returncode \in (0 - MaxSignal)..MaxExit :
          IF returncode = 0
          THEN /\ orch' = [orch EXCEPT !.returncode = Append(@, returncode),
                                       !.printed = Append(@, "finished successfully")]
               /\ pc' = IF Len(orch.started) = 1 THEN "orch_import" ELSE "orch_tail"
          ELSE /\ orch' = [orch EXCEPT !.returncode = Append(@, returncode),
                                       !.printed = Append(@, "ERROR"),
                                       !.exit = <<returncode % 256>>]
               /\ pc' = "orch_exited"
    /\ UNCHANGED <<ingested, G, L, communities, mod_score, mcl, btl, t4, rep>>

\* print("All project setup tasks complete!") and the end of main.py.
OrchComplete ==
    /\ pc = "orch_tail"
    /\ orch' = [orch EXCEPT !.printed = Append(@, "All project setup tasks complete"),
                            !.exit = <<0>>]
    /\ pc' = "orch_exited"
    /\ UNCHANGED <<ingested, G, L, communities, mod_score, mcl, btl, t4, rep>>

NextOrch == OrchCheck \/ OrchPre \/ OrchImport \/ ScriptEnds \/ OrchComplete

\* main.py is started in a directory with or without features/data_import.py.
InitOrch ==
    /\ pc = "orch_start"
    /\ ingested = <<>>
    /\ G = EmptyGraph
    /\ communities = <<>>
    /\ L = NoRun
    /\ mod_score = [num |-> BigZero, den |-> Big(1)]
    /\ mcl = NoMcl
    /\ btl = NoBtl
    /\ t4 = NoT4
    /\ rep = NoRep
    /\ \E exists \in BOOLEAN : orch = [NoOrch EXCEPT !.exists = exists]

SpecOrch == InitOrch /\ [][NextOrch]_vars

\* ------------------------------------------------------------ properties
IsPartition(comms, nodes) ==
    /\ \A i \in 1..Len(comms) : comms[i] # {}
    /\ \A i, j \in 1..Len(comms) : i # j => comms[i] \cap comms[j] = {}
    /\ UNION {comms[i] : i \in 1..Len(comms)} = nodes

Returned == pc \in {"clustered", "annotated", "scored"}

\* C1: the list of communities louvain_communities returns is a partition of
\* the node set of the graph: no community is empty, no node is in two
\* communities, and every node of the graph is in one.
C1_LouvainReturnsPartition ==
    Returned => IsPartition(communities, NodeSet(G))

\* C2: the list of communities the Markov clustering script builds is a
\* partition of the node set of the graph: no node is missing from every
\* community and no node is in two.
C2_MclReturnsPartition ==
    pc \in {"mcl_clustered", "mcl_scored"} => IsPartition(communities, NodeSet(G))

C13_SortedBySize ==
    pc \in {"mcl_clustered", "mcl_scored"} =>
        /\ \A i, j \in 1..Len(communities) :
               i < j => Cardinality(communities[i]) >= Cardinality(communities[j])
        /\ \A u \in DOMAIN mcl.node2cluster :
               u \in communities[mcl.node2cluster[u] + 1]

\* C13's case: get_clusters gave a smaller cluster before a larger one.
C13_Witness ==
    /\ pc = "mcl_clustered"
    /\ \E i, j \in 1..Len(mcl.clusters_indices) :
          /\ i < j
          /\ LexLess(mcl.clusters_indices[j], mcl.clusters_indices[i])
          /\ Len(mcl.clusters_indices[i]) > Len(mcl.clusters_indices[j])

\* C14: node2cluster is derived from the list of communities: for every
\* index c the nodes that node2cluster sends to c are the members of
\* communities[c].
C14_MapDerivedFromList ==
    pc \in {"mcl_clustered", "mcl_scored"} =>
        \A c \in 1..Len(communities) :
            {u \in DOMAIN mcl.node2cluster : mcl.node2cluster[u] = c - 1}
                = communities[c]

\* C15: the modularity of a graph of total edge weight 0 is 0: whenever the
\* pipeline computes the modularity of such a graph, the computation ends
\* with the score 0.
C15_ZeroWeightModularityIsZero ==
    [][Score /\ DegSum(G) = 0 => pc' = "scored" /\ mod_score'.num = BigZero]_vars

\* The list s in the order p of its positions.
Permuted(s, p) == [i \in 1..Len(s) |-> s[p[i]]]

Perms(n) == {p \in [1..n -> 1..n] : \A i, j \in 1..n : i # j => p[i] # p[j]}

DistinctPairs(rows) ==
    \A i, j \in 1..Len(rows) :
        i # j => {rows[i][1], rows[i][2]} # {rows[j][1], rows[j][2]}

\* The exact value of the modularity of the returned communities is the same
\* for every order of the list of communities and, when the rows name
\* different pairs, for every order in which the rows are added to the graph
\* (the score of the program is the double nearest to it along one order of
\* summation).
ExactModularityInvariant ==
    pc = "scored" =>
        /\ \A p \in Perms(Len(communities)) :
               ModNum(G, Permuted(communities, p)) = mod_score.num
        /\ DistinctPairs(ingested) =>
               \A q \in Perms(Len(ingested)) :
                   /\ ModNum(BuildGraph(Permuted(ingested, q)), communities)
                          = mod_score.num
                   /\ ModDen(BuildGraph(Permuted(ingested, q))) = mod_score.den

\* C1's case: a run of two levels that ends with more than one community,
\* one of them of several nodes.
C1_Witness ==
    /\ pc = "clustered"
    /\ L.level >= 2
    /\ Len(communities) >= 2
    /\ \E i \in 1..Len(communities) : Cardinality(communities[i]) >= 2

RowsOf(u, v) ==
    {i \in 1..Len(ingested) : {ingested[i][1], ingested[i][2]} = {u, v}}

EdgesOf(es, u, v) == {k \in 1..Len(es) : {es[k][1], es[k][2]} = {u, v}}

\* C3: after any sequence of add_edge calls there is one edge for every
\* unordered pair that a row named, none for any other pair, and its weight
\* is the weight of the last row that named the pair in either orientation.
C3_LastWriteWins ==
    LET es == Edges(G)
    IN  \A u, v \in Proteins :
            LET rows == RowsOf(u, v)
                found == EdgesOf(es, u, v)
            IN  IF rows = {}
                THEN found = {}
                ELSE /\ Cardinality(found) = 1
                     /\ \A k \in found : es[k][3] = ingested[MaxOf(rows)][3]
                     /\ G.w[<<u, v>>] = ingested[MaxOf(rows)][3]
                     /\ G.w[<<v, u>>] = ingested[MaxOf(rows)][3]

\* C3's case: a pair named by two rows, in the two orientations and with
\* different positive weights.
C3_Witness ==
    \E i, j \in 1..Len(ingested) :
        /\ i < j
        /\ ingested[i][1] # ingested[i][2]
        /\ ingested[j][1] = ingested[i][2]
        /\ ingested[j][2] = ingested[i][1]
        /\ ingested[i][3] > 0
        /\ ingested[j][3] > 0
        /\ ingested[i][3] # ingested[j][3]

\* C4: no graph built from ingested rows holds a self-loop or an edge of
\* weight <= 0 (a row with u = v or weight <= 0 is rejected and leaves the
\* graph as it was).
C4_NoInvalidEdge ==
    LET es == Edges(G)
    IN  \A k \in 1..Len(es) : es[k][1] # es[k][2] /\ es[k][3] > 0

\* C5: once the graph is built no later stage changes the Graph object: its
\* nodes, edges, weights and per-node storage stay as they are.
C5_GraphUnchangedAfterBuild == [][pc # "build" => G' = G]_vars

SameCommunity(comms, S) == \E i \in 1..Len(comms) : S \subseteq comms[i]

\* C10 as stated: on the scenario graph, for every seed, P1, P2 and P3 are in
\* one community and the modularity of the returned partition is > 0.
C10_ScenarioPositiveModularity ==
    pc = "scored" => SameCommunity(communities, {1, 2, 3}) /\ BigLess(BigZero, mod_score.num)

\* C10 amended: on the scenario graph, for every seed, P1, P2 and P3 are in
\* one community, and the modularity of the returned partition is 0.
C10_ScenarioZeroModularity ==
    pc = "scored" => SameCommunity(communities, {1, 2, 3}) /\ mod_score.num = BigZero

\* C10's case: the run on the scenario graph has returned and been scored.
C10_Witness ==
    pc = "scored" /\ ingested = ScenarioRows /\ L.level >= 2

\* The gain (times 2 m^2) of taking u out of its community of the list comms
\* and putting it into the community c, by the formula of _one_level.
MoveGainNum(g, comms, u, c) ==
    LET node2com == [v \in Proteins |->
                       IF \E i \in 1..Len(comms) : v \in comms[i]
                       THEN ComOf(comms, v) ELSE 0]
        Stot == [i \in 1..Len(comms) |-> CommDegree(g, comms[i])]
        StotOut == [Stot EXCEPT ![node2com[u]] = @ - Degree(g, u)]
    IN  GainNum(g, Size(g), node2com, StotOut, u, c)

\* The communities, other than its own, in which u has a neighbour.
OtherNeighborComs(g, comms, u) ==
    {ComOf(comms, v) : v \in {x \in NodeSet(g) : InSeq(x, Nbrs(g, u))}}
    \ {ComOf(comms, u)}

NoGainfulMove(g, comms) ==
    \A u \in NodeSet(g) :
        \A c \in OtherNeighborComs(g, comms, u) : BigLeq(MoveGainNum(g, comms, u, c), BigZero)

\* The graph of the returned communities: community i is node i.
Collapsed(g, comms) == _gen_graph(CopyGraph(g), comms)

Singletons(g) == [i \in 1..Len(g.nodes) |-> {g.nodes[i]}]

\* C7: when louvain_communities has returned, no move has a gain > 0 at any
\* level: no node of the graph gains by moving into a neighbouring returned
\* community, and no returned community (a node of the last level) gains by
\* moving into a neighbouring one.
C7_NoGainfulMove ==
    pc = "clustered" =>
        /\ NoGainfulMove(G, communities)
        /\ NoGainfulMove(Collapsed(G, communities),
                         Singletons(Collapsed(G, communities)))

\* C6: the rounds of local moving and aggregation stop when a Phase 1 has
\* made no move or a single community remains: when louvain_communities has
\* returned, the last Phase 1 moved no node or one community is returned.
C6_StopsOnNoMoveOrSingle ==
    pc = "clustered" /\ L.level >= 1 =>
        ~L.improvement \/ Len(communities) = 1

\* The detector returns on every graph of the hub family, and each Phase 1
\* comes to its end.
Terminates ==
    /\ (pc = "build") ~> Returned
    /\ (pc = "sweep") ~> (pc = "level_end")

\* louvain_communities(h, seed) up to the end of its first sweep.
FirstSweep(h, seed) ==
    OneSweep(LevelInit([NoRun EXCEPT !.rng = seed,
                                     !.m = Size(h),
                                     !.partition = Singletons(h)], h))

\* C9: the detector applied, with any seed, to the graph whose nodes are the
\* returned communities moves no node in its first sweep, and so returns
\* every node of that graph in a community of its own.
C9_FixedPoint ==
    pc = "clustered" =>
        \A seed \in 0..MaxSeed :
            FirstSweep(Collapsed(G, communities), seed).nb_moves = 0

\* The rank dict r orders the nodes of the subgraph: every rank of 1..n is
\* given to exactly one node.
IsRanking(r) ==
    /\ DOMAIN r = NodeSet(btl.subG)
    /\ \A k \in 1..Len(btl.subG.nodes) :
           Cardinality({u \in DOMAIN r : r[u] = k}) = 1

\* C17: every node of the community gets three ranks, 1 being the best: a
\* node of higher betweenness has a lower betweenness rank, a node of higher
\* degree a lower degree rank, a node of lower clustering a lower clustering
\* rank; and the score of a node in the table is the sum of its three ranks.
C17_RanksAndSum ==
    pc \in {"btl_ranked", "btl_done"} =>
        /\ IsRanking(btl.rank_bc)
        /\ IsRanking(btl.rank_deg)
        /\ IsRanking(btl.rank_clust)
        /\ \A u, v \in NodeSet(btl.subG) :
              /\ Get(btl.bc, u) > Get(btl.bc, v)
                     => btl.rank_bc[u] < btl.rank_bc[v]
              /\ Get(btl.deg, u) > Get(btl.deg, v)
                     => btl.rank_deg[u] < btl.rank_deg[v]
              /\ Get(btl.clust, u) < Get(btl.clust, v)
                     => btl.rank_clust[u] < btl.rank_clust[v]
        /\ Len(btl.results) = Len(btl.subG.nodes)
        /\ \A u \in NodeSet(btl.subG) :
              \E k \in 1..Len(btl.results) :
                  /\ btl.results[k].Protein = u
                  /\ btl.results[k].Total_Score =
                         btl.rank_bc[u] + btl.rank_deg[u] + btl.rank_clust[u]
        /\ pc = "btl_done" =>
              \A u \in NodeSet(btl.subG) :
                  \E k \in 1..Len(btl.df) :
                      /\ btl.df[k].Protein = u
                      /\ btl.df[k].Total_Score =
                             btl.rank_bc[u] + btl.rank_deg[u] + btl.rank_clust[u]

\* C17's case: a ranked community of four nodes where each metric takes
\* three values or more, so every ranking has an order to follow.
C17_Witness ==
    /\ pc = "btl_done"
    /\ Len(btl.subG.nodes) = BtlProteins
    /\ Cardinality({btl.bc[k][2] : k \in 1..Len(btl.bc)}) >= 2
    /\ Cardinality({btl.deg[k][2] : k \in 1..Len(btl.deg)}) >= 3
    /\ Cardinality({btl.clust[k][2] : k \in 1..Len(btl.clust)}) >= 3

\* The subgraph is a star with the hub h: three nodes or more, an edge of
\* weight 1 from h to every other node, and no other edge.
IsUnitStar(g, h) ==
    /\ Len(g.nodes) >= 3
    /\ h \in NodeSet(g)
    /\ \A u \in NodeSet(g) \ {h} :
          /\ g.adj[u] = <<h>>
          /\ g.w[<<u, h>>] = 1
    /\ Len(g.adj[h]) = Len(g.nodes) - 1
    /\ ~InSeq(h, g.adj[h])

\* The score of u in the table.
TotalScore(u) ==
    btl.df[CHOOSE k \in 1..Len(btl.df) : btl.df[k].Protein = u].Total_Score

\* C18: on a star with unit weights the hub has a score strictly lower than
\* every leaf, whatever the order of the nodes in the subgraph.
C18_HubBeforeLeaves ==
    pc = "btl_done" =>
        \A h \in NodeSet(btl.subG) :
            IsUnitStar(btl.subG, h) =>
                \A u \in NodeSet(btl.subG) \ {h} : TotalScore(h) < TotalScore(u)

\* C19: two rows of the table with one score are in ascending order of
\* their identifiers.
C19_TiesByIdentifier ==
    pc = "btl_done" =>
        \A i, j \in 1..Len(btl.df) :
            i < j /\ btl.df[i].Total_Score = btl.df[j].Total_Score
                => btl.df[i].Protein < btl.df[j].Protein

\* C20: the degree the ranking uses for a node is the sum of the weights of
\* its edges inside the community.
C20_DegreeIsWeighted ==
    pc \in {"btl_metrics", "btl_ranked", "btl_done"} =>
        \A u \in NodeSet(btl.subG) : Get(btl.deg, u) = Degree(btl.subG, u)

\* The table rows has exactly one row for every node of the set, no other
\* row, and its scores do not decrease from one row to the next.
FullSortedTable(rows, nodes) ==
    /\ \A u \in nodes : Cardinality({k \in 1..Len(rows) : rows[k].Protein = u}) = 1
    /\ \A k \in 1..Len(rows) : rows[k].Protein \in nodes
    /\ \A i, j \in 1..Len(rows) : i < j => rows[i].Total_Score <= rows[j].Total_Score

\* C21: the rank table is the full table of the target community, one row
\* per node and no other row, in non-decreasing order of the score; for the
\* table of btl_anal and for the table of 04_target_bottleneck.py.
C21_FullSortedTable ==
    /\ pc \in {"btl_done", "btl_returned"} =>
           FullSortedTable(btl.df, communities[btl.cluster_id + 1])
    /\ pc \in {"t4_ranked", "t4_done"} =>
           FullSortedTable(t4.combined_results, communities[t4.target_cluster_id + 1])

\* The place of u in the whole sorted list of a metric.
PlaceIn(scores, reverse, u) ==
    CHOOSE r \in 1..Len(scores) : sorted_items(scores, reverse)[r][1] = u

\* The rank the bounded mode owes u for a metric: its place among the first
\* N, else N + 1.
BoundedRank(scores, reverse, u, N) ==
    IF PlaceIn(scores, reverse, u) <= N THEN PlaceIn(scores, reverse, u) ELSE N + 1

\* C22: in the bounded mode every node of the community has its place as the
\* rank of a metric when it is among the first N of the metric and N + 1
\* when it is not, so every rank is in 1..N+1 and every score in 3..3(N+1).
C22_BoundedRanks ==
    pc \in {"t4_ranked", "t4_done"} =>
        \A u \in NodeSet(t4.target_subgraph) :
            \E k \in 1..Len(t4.combined_results) :
                LET row == t4.combined_results[k]
                    N == t4.TOP_N_RANKING
                IN  /\ row.Protein = u
                    /\ row.BC_Rank = BoundedRank(t4.bc_scores, TRUE, u, N)
                    /\ row.Deg_Rank = BoundedRank(t4.deg_scores, TRUE, u, N)
                    /\ row.Clust_Rank = BoundedRank(t4.clust_scores, FALSE, u, N)
                    /\ {row.BC_Rank, row.Deg_Rank, row.Clust_Rank} \subseteq 1..(N + 1)
                    /\ row.Total_Score \in 3..(3 * (N + 1))

\* C29: for a community of at most N nodes the bounded ranking gives every
\* node the three ranks and the score that btl_anal's ranking gives it on
\* the same metric dicts, no rank is the penalty N + 1, and both tables hold
\* every node of the community.
C29_BoundedAgreesOnSmall ==
    pc \in {"t4_ranked", "t4_done"}
    /\ Len(t4.target_subgraph.nodes) <= t4.TOP_N_RANKING =>
        LET canonical == results_of(t4.target_subgraph.nodes, t4.bc_scores,
                                    t4.deg_scores, t4.clust_scores)
        IN  /\ \A u \in NodeSet(t4.target_subgraph) :
                  \E k \in 1..Len(t4.combined_results) :
                  \E c \in 1..Len(canonical) :
                      LET row == t4.combined_results[k]
                      IN  /\ row.Protein = u
                          /\ canonical[c].Protein = u
                          /\ row.BC_Rank = get_ranks(t4.bc_scores, FALSE)[u]
                          /\ row.Deg_Rank = get_ranks(t4.deg_scores, FALSE)[u]
                          /\ row.Clust_Rank = get_ranks(t4.clust_scores, TRUE)[u]
                          /\ row.Total_Score = canonical[c].Total_Score
                          /\ t4.TOP_N_RANKING + 1
                                 \notin {row.BC_Rank, row.Deg_Rank, row.Clust_Rank}
            /\ Len(t4.combined_results) = Len(t4.target_subgraph.nodes)
            /\ Len(canonical) = Len(t4.target_subgraph.nodes)

\* C29's case: a community of exactly N = MaxTopN nodes whose betweenness
\* and clustering are not the same for all nodes.
C29_Witness ==
    /\ pc = "t4_done"
    /\ t4.TOP_N_RANKING = MaxTopN
    /\ Len(t4.target_subgraph.nodes) = MaxTopN
    /\ Cardinality({t4.bc_scores[k][2] : k \in 1..Len(t4.bc_scores)}) >= 2
    /\ Cardinality({t4.deg_scores[k][2] : k \in 1..Len(t4.deg_scores)}) >= 2

\* btl_anal has computed the metrics, or has failed computing them.
BtlMeasured == pc \in {"btl_metrics", "btl_ranked", "btl_done", "btl_returned"}

\* main of 04_target_bottleneck.py has computed the metrics.
T4Measured == pc \in {"t4_metrics", "t4_ranked", "t4_done"}

\* The betweenness bc of g is the sampled one: that of some sample of 20% of
\* the nodes as sources, not an empty one.
IsSampled(g, bc) ==
    \E S \in SUBSET NodeSet(g) :
        /\ S # {}
        /\ Cardinality(S) = (Len(g.nodes) * 20) \div 100
        /\ bc = betweenness_centrality_k(g, SelectSeq(g.nodes, LAMBDA u : u \in S))

\* C23 for btl_anal alone: the mode is the approximate one exactly when the
\* community has more nodes than large_cluster_limit; then the sources are a
\* sample of 20% of the nodes drawn with the seed 42, else all the nodes.
BtlModeByLimit ==
    /\ BtlMeasured \/ pc = "crashed" =>
           (btl.k # <<>> <=> Len(btl.subG.nodes) > btl.large_cluster_limit)
    /\ BtlMeasured /\ btl.k # <<>> =>
           /\ btl.k = <<(Len(btl.subG.nodes) * 20) \div 100>>
           /\ Len(btl.sample) = btl.k[1]
           /\ btl.seed = <<42>>
           /\ IsSampled(btl.subG, btl.bc)
    /\ BtlMeasured /\ btl.k = <<>> =>
           /\ btl.sample = btl.subG.nodes
           /\ btl.bc = betweenness_centrality(btl.subG)

\* C23: the betweenness of the community is the sampled one, with 20% of the
\* nodes as sources and a fixed seed, exactly when the community has more
\* nodes than the threshold of the run, and the exact one over all sources
\* when it has not; in btl_anal and in 04_target_bottleneck.py.
C23_ApproximateAboveLimit ==
    /\ BtlModeByLimit
    /\ T4Measured =>
           IF Len(t4.target_subgraph.nodes) > btl.large_cluster_limit
           THEN (Len(t4.target_subgraph.nodes) * 20) \div 100 = 0
                \/ IsSampled(t4.target_subgraph, t4.bc_scores)
           ELSE t4.bc_scores = betweenness_centrality(t4.target_subgraph)

\* The path graph A - B - C - D - E with unit weights, A..E as 1..5.
PathAE == <<<<1, 2, 1>>, <<2, 3, 1>>, <<3, 4, 1>>, <<4, 5, 1>>>>

\* centrality(C) > centrality(B) = centrality(D) > centrality(A) =
\* centrality(E) = 0
PathOrder(bc) ==
    /\ Get(bc, 3) > Get(bc, 2)
    /\ Get(bc, 2) = Get(bc, 4)
    /\ Get(bc, 4) > Get(bc, 1)
    /\ Get(bc, 1) = Get(bc, 5)
    /\ Get(bc, 5) = 0

\* C24: on the path graph A - B - C - D - E with unit weights the exact
\* betweenness of C is above that of B, which is that of D, which is above
\* that of A, which is that of E and is 0; in both rankers.
C24_PathBetweenness ==
    ingested = PathAE =>
        /\ BtlMeasured /\ btl.k = <<>> => PathOrder(btl.bc)
        /\ T4Measured => PathOrder(t4.bc_scores)

\* C24's case: btl_anal has ranked the path in the exact mode, with the
\* betweenness 2/3 for C and 1/2 for B.
C24_Witness ==
    /\ ingested = PathAE
    /\ pc = "btl_returned"
    /\ btl.k = <<>>
    /\ Get(btl.bc, 3) * 3 = 2 * BcScale
    /\ Get(btl.bc, 2) * 2 = BcScale

\* Every node of the dict has the value x.
AllAre(dict, x) == \A k \in 1..Len(dict) : dict[k][2] = x

\* The clustering dicts computed so far.
Clusterings ==
    (IF BtlMeasured THEN {btl.clust} ELSE {})
        \cup (IF T4Measured THEN {t4.clust_scores} ELSE {})

\* C25 as stated: on the ring of n nodes with unit weights the clustering of
\* every node is 0 and on the complete graph of n nodes with unit weights it
\* is 1, for every n.
C25_RingAndCompleteAnyN ==
    \A n \in 2..MaxShapeNodes : \A c \in Clusterings :
        /\ ingested = ring_rows(n) => AllAre(c, 0)
        /\ ingested = complete_rows(n) => AllAre(c, ClustScale)

\* C25 amended: on the ring of n >= 4 nodes with unit weights the clustering
\* of every node is 0, and on the complete graph of n >= 3 nodes with unit
\* weights it is 1.
C25_RingAndComplete ==
    \A n \in 2..MaxShapeNodes : \A c \in Clusterings :
        /\ n >= 4 /\ ingested = ring_rows(n) => AllAre(c, 0)
        /\ n >= 3 /\ ingested = complete_rows(n) => AllAre(c, ClustScale)

\* C25's case: btl_anal has measured the complete graph of MaxShapeNodes
\* nodes, every clustering is 1.
C25_Witness ==
    /\ ingested = complete_rows(MaxShapeNodes)
    /\ pc = "btl_returned"
    /\ Len(btl.clust) = MaxShapeNodes
    /\ AllAre(btl.clust, ClustScale)

\* C30: main.py starts features/data_import.py only after pre_requisites.py
\* has ended with the code 0; after a script has exited with a code other
\* than 0 no further script is started and main.py exits with that code; the
\* message that all tasks are complete is printed only after both scripts
\* ended with 0; and without features/data_import.py no script is started.
C30_ScriptsInSequence ==
    /\ \A i \in 1..Len(orch.started) :
           /\ orch.started[i] = <<"pre_requisites.py", "features/data_import.py">>[i]
           /\ i <= Len(orch.returncode) + 1
           /\ \A j \in 1..(i - 1) : orch.returncode[j] = 0
    /\ Len(orch.started) <= 2
    /\ \A i \in 1..Len(orch.returncode) :
           orch.returncode[i] > 0 =>
               /\ Len(orch.started) = i
               /\ pc = "orch_exited"
               /\ orch.exit = <<orch.returncode[i]>>
    /\ InSeq("All project setup tasks complete", orch.printed) =>
           /\ orch.started = <<"pre_requisites.py", "features/data_import.py">>
           /\ orch.returncode = <<0, 0>>
    /\ ~orch.exists => orch.started = <<>> /\ orch.returncode = <<>>
    /\ ~orch.exists /\ pc = "orch_exited" => orch.exit = <<1>>

\* C30's case: pre_requisites.py ended with 0, features/data_import.py was
\* started after it and exited with the code MaxExit, and main.py exited
\* with that code.
C30_Witness ==
    /\ pc = "orch_exited"
    /\ orch.started = <<"pre_requisites.py", "features/data_import.py">>
    /\ orch.returncode = <<0, MaxExit>>
    /\ orch.exit = <<MaxExit>>

\* The target of the run is in no community of the pickle.
TargetInNoCommunity(target) ==
    \A c \in 1..Len(communities) : target \notin communities[c]

\* C28: when the target is in no community, btl_anal returns an error that
\* names the target, selects no community, computes no metric and no rank
\* and writes no file; main of 04_target_bottleneck.py prints a message
\* that names the target and likewise computes and writes nothing.
C28_NotFoundIsSurfaced ==
    /\ TargetInNoCommunity(btl.target_protein)
       /\ pc \in {"btl_error", "btl_metrics", "btl_ranked", "btl_done",
                  "btl_returned", "crashed"} =>
           /\ pc = "btl_error"
           /\ Len(btl.error) = 2
           /\ btl.error[2] = btl.target_protein
           /\ [btl EXCEPT !.error = <<>>] = [NoBtl EXCEPT
                      !.target_protein = btl.target_protein,
                      !.large_cluster_limit = btl.large_cluster_limit,
                      !.PYVIS_AVAILABLE = btl.PYVIS_AVAILABLE]
    /\ TargetInNoCommunity(t4.TARGET_PROTEIN)
       /\ pc \in {"t4_error", "t4_metrics", "t4_ranked", "t4_done"} =>
           /\ pc = "t4_error"
           /\ Len(t4.printed) = 2
           /\ t4.printed[2] = t4.TARGET_PROTEIN
           /\ [t4 EXCEPT !.printed = <<>>] = [NoT4 EXCEPT
                      !.TARGET_PROTEIN = t4.TARGET_PROTEIN,
                      !.TOP_N_RANKING = t4.TOP_N_RANKING]

\* C28's case: btl_anal was called for a target that is not in the complete
\* graph of MaxShapeNodes nodes and has returned the error.
C28_Witness ==
    /\ pc = "btl_error"
    /\ ingested = complete_rows(MaxShapeNodes)
    /\ btl.target_protein \notin NodeSet(G)
    /\ btl.error = <<"not found in the graph", btl.target_protein>>
    /\ btl.written = {}

\* No node is in two communities of the list.
Disjoint(communities_list) ==
    \A c, d \in 1..Len(communities_list) :
        c # d => communities_list[c] \cap communities_list[d] = {}

\* C27: the label vector of a list of disjoint communities over the fixed
\* order has one entry per node of the order, in that order, the entry of a
\* node is the index of the community that holds it, and two nodes have one
\* label exactly when one community holds both; a node of the order that is
\* in no community makes the conversion fail, without a default label.
C27_LabelsFollowCommunities ==
    /\ pc \in {"rep_labelled", "rep_compared"} =>
           /\ Len(rep.label_vectors) = Len(rep.all_community_sets)
           /\ \A r \in 1..Len(rep.all_community_sets) :
                  LET comms == rep.all_community_sets[r]
                      vec == rep.label_vectors[r]
                  IN  /\ Len(vec) = Len(rep.nodes_list)
                      /\ \A i \in 1..Len(vec) :
                             /\ vec[i] \in 0..(Len(comms) - 1)
                             /\ rep.nodes_list[i] \in comms[vec[i] + 1]
                      /\ Disjoint(comms) =>
                             \A i, j \in 1..Len(vec) :
                                 vec[i] = vec[j] <=>
                                     \E c \in 1..Len(comms) :
                                         {rep.nodes_list[i], rep.nodes_list[j]}
                                             \subseteq comms[c]
    /\ pc \in {"rep_labelled", "rep_compared", "crashed"} =>
           (pc = "crashed" <=>
                \E r \in 1..Len(rep.all_community_sets) :
                \E i \in 1..Len(rep.nodes_list) :
                    \A c \in 1..Len(rep.all_community_sets[r]) :
                        rep.nodes_list[i] \notin rep.all_community_sets[r][c])
    /\ pc = "crashed" => rep.label_vectors = <<>> /\ rep.KeyError # <<>>

\* C27's case: the order holds all LabelNodes nodes, not in the order of their
\* names, and the list of two disjoint communities has been converted into
\* a vector with both labels.
C27_Witness ==
    /\ pc = "rep_labelled"
    /\ Len(rep.nodes_list) = LabelNodes
    /\ rep.nodes_list[1] > rep.nodes_list[2]
    /\ Len(rep.all_community_sets[1]) = 2
    /\ Disjoint(rep.all_community_sets[1])
    /\ {rep.label_vectors[1][i] : i \in 1..LabelNodes} = {0, 1}

====
